---- MODULE Spec2Model ----
(***************************************************************************)
(* A model of the markdown_illustrator core: the placement engine          *)
(* (ContentAnalyzer.analyze, src/src/analyzer.py), the regeneration        *)
(* reconciler (MarkdownRegenerateParser, src/src/regenerate.py) and the    *)
(* regeneration path of MarkdownIllustrator.illustrate (src/src/main.py).  *)
(*                                                                         *)
(* Python indices are kept 0-based in the data (element_index, index,      *)
(* line_number); a TLA+ sequence s holds Python's s[i] at s[i + 1].        *)
(* Python's None is the string "none" for a kind, -1 for an index and      *)
(* NoPrompt / NoPath / NoDecision for a record.                            *)
(***************************************************************************)
EXTENDS Integers, Sequences, FiniteSets, TLC

\* ---------------------------------------------------------------- bounds

\* The longest document (number of elements) the analysis is run on.
MaxElems == 4
\* The number of blocks (image, diagram, sentinel, text) of a previous file.
MaxBlocks == 3
\* The longest Decision list a previous file is reconciled against.
MaxDecisions == 2
\* The number of analyze calls made on one Document object.
MaxCalls == 2

\* ------------------------------------------------------ program constants

\* _should_add_section_image: the word total a section must exceed.
SmartSectionWords == 100
\* The defaults of the optional rule keys.
DefaultLongParagraphThreshold == 150
DefaultMinGap == 3
DefaultMaxImages == 10

\* ------------------------------------------------------------- documents

\* A content string is kept by what the code measures of it: `chars` is the
\* number of its non-whitespace characters, `concept` whether it holds one
\* of CONCEPT_KEYWORDS, `tech` whether it holds one of TECH_KEYWORDS.
Content(text, chars, concept, tech) ==
    [text |-> text, chars |-> chars, concept |-> concept, tech |-> tech]

NoPrompt == [template |-> "none", text |-> "", theme |-> "", summary |-> FALSE]

\* MarkdownElement.__post_init__: word_count is the number of
\* non-whitespace characters of the content.
WordCount(content) == content.chars

\* MarkdownElement as the parser builds it: no annotation yet.
MarkdownElement(type, level, content) ==
    [type |-> type, level |-> level, content |-> content, position |-> 0,
     word_count |-> WordCount(content),
     need_image |-> FALSE, image_type |-> "none", image_prompt |-> NoPrompt]

\* The elements a parsed document is drawn from.
ElementAlphabet ==
    { MarkdownElement("heading", 1, Content("Title", 5, FALSE, FALSE)),
      MarkdownElement("heading", 2, Content("Section", 7, FALSE, FALSE)),
      MarkdownElement("heading", 2, Content("Mechanism", 9, TRUE, FALSE)),
      MarkdownElement("paragraph", 0, Content("short", 60, FALSE, FALSE)),
      MarkdownElement("paragraph", 0, Content("long", 150, FALSE, FALSE)),
      MarkdownElement("code_block", 0, Content("", 0, FALSE, FALSE)) }

\* MarkdownParser.parse, lines 124-130: each element gets as position the
\* number of elements appended before it.
SetPositions(elems) ==
    [i \in 1..Len(elems) |-> [elems[i] EXCEPT !.position = i - 1]]

\* MarkdownParser._extract_title: the first level-1 heading, or "Untitled".
ExtractTitle(elems) ==
    LET h1 == { i \in 1..Len(elems) :
                  elems[i].type = "heading" /\ elems[i].level = 1 }
    IN  IF h1 # {}
        THEN elems[CHOOSE i \in h1 : \A j \in h1 : i <= j].content
        ELSE Content("Untitled", 8, FALSE, FALSE)

\* MarkdownDocument as MarkdownParser.parse returns it.
MarkdownDocument(elems) ==
    [elements |-> SetPositions(elems),
     title |-> ExtractTitle(elems),
     theme |-> "",
     doc_type |-> "unset"]

ElementSeqs == UNION { [1..n -> ElementAlphabet] : n \in 0..MaxElems }

\* ----------------------------------------------------------------- rules

\* The rule configurations: h2_after is True, False or 'smart'.
RuleConfigs ==
    [h1_after : BOOLEAN,
     h2_after : {"true", "false", "smart"},
     long_paragraph_threshold : {DefaultLongParagraphThreshold},
     min_gap_between_images : {1, DefaultMinGap},
     max_images_per_article : {0, 1, 2, DefaultMaxImages}]

\* ------------------------------------------------ rules with missing keys

\* dict.get as it would be if h1_after were read without its default
\* (None, which is falsy).
RuleGetWithoutH1Default(r, key, default) ==
    IF key \in DOMAIN r THEN r[key]
    ELSE IF key = "h1_after" THEN FALSE ELSE default

\* dict.get(key, default) on the rules.
RuleGet(r, key, default) == IF key \in DOMAIN r THEN r[key] ELSE default

VARIABLES
    doc,            \* the MarkdownDocument under analysis
    rules,          \* config['rules']
    image_source,   \* ContentAnalyzer.image_source
    decisions,      \* the list returned by the last analyze call
    prevDecisions,  \* the list returned by the call before it
    calls,          \* number of analyze calls made on doc
    lines,          \* the lines of the previously assembled file
    selector,       \* regenerate_index / regenerate_type / regenerate_failed
    existing_images,    \* what parse_existing_images recovered
    regenerate_indices, \* what filter_images_to_regenerate selected
    plan,           \* the plan of create_regenerate_plan
    at_base,        \* the working directory is the output file's directory
    batch,          \* illustrate's batch parameter
    run,            \* 1: the first illustrate run, 2: the regeneration run
    image_paths,    \* illustrate's image_paths
    generate_indices,   \* the ordinals illustrate has yet to generate
    generated,      \* the ordinals the backend was called for in this run
    prev_paths,     \* image_paths as the first run assembled them
    content,        \* the text MarkdownParser.parse is called with
    parse_lines,    \* parse's lines, content.split('\n')
    parse_i,        \* parse's line index i
    parse_elements, \* MarkdownParser.elements
    assembled,      \* the text the Assembler made of the parsed document
    reparsed,       \* the elements of the parse of the assembled text
    marker,         \* an image_path entry: a path or a diagram marker
    marker_built,   \* the kind and source text the marker was built from
    marker_result,  \* what is_mermaid_code and parse_mermaid_code return
    source_request, \* the arguments the image-source selection is called with
    source_results, \* what the calls made with these arguments returned
    ab_test,        \* config['ab_test']
    user_quota,     \* SessionManager.user_quota[username][today]
    quota_limit,    \* session quota_limit of the user
    req_pc,         \* position of each /api/illustrate request
    req_used,       \* counter value each request read for its increment
    pc              \* where the run stands

\* The state of an illustrate run.
illustrateVars == <<at_base, batch, run, image_paths, generate_indices,
                    generated, prev_paths>>

\* The state of a MarkdownParser run and of the round trip made of it.
parserVars == <<content, parse_lines, parse_i, parse_elements, assembled,
                reparsed>>

vars == <<doc, rules, image_source, decisions, prevDecisions, calls,
          lines, selector, existing_images, regenerate_indices, plan,
          at_base, batch, run, image_paths, generate_indices, generated,
          prev_paths, content, parse_lines, parse_i, parse_elements,
          assembled, reparsed, marker, marker_built, marker_result,
          source_request, source_results,
          ab_test,
          user_quota, quota_limit, req_pc, req_used, pc>>

\* The state of a marker round trip.
markerVars == <<marker, marker_built, marker_result>>

\* No marker built, nothing returned yet.
NoMarker == [kind |-> "none", source |-> ""]
NoMarkerResult ==
    [is_mermaid |-> FALSE, diagram_type |-> "none", mermaid_code |-> ""]

\* The state of a series of image-source selections.
sourceVars == <<source_request, source_results>>

\* No selection asked for yet.
NoSourceRequest ==
    [selector |-> "none", image_type |-> "none", doc_type |-> "none"]

\* No selection made.
SourceIdle ==
    /\ source_request = NoSourceRequest
    /\ source_results = <<>>

\* The A/B test configuration of the analysis.
abVars == <<ab_test>>

\* A configuration without ab_test key: config.get('ab_test', {}) and the
\* defaults analyze reads from it.
NoAbTest == [enabled |-> FALSE, variations |-> <<>>, test_size |-> 2]

\* A/B testing not configured.
AbIdle ==
    /\ ab_test = NoAbTest

\* The state of the web server's daily quota: the counter of one user for
\* today, the limit of the user's session, and the position and the local
\* copy of the counter of each request of the user.
quotaVars == <<user_quota, quota_limit, req_pc, req_used>>

\* No request of the user under way.
QuotaIdle ==
    /\ user_quota = 0
    /\ quota_limit = 0
    /\ req_pc = <<>>
    /\ req_used = <<>>

\* No parse under way (a MarkdownParser as __init__ leaves it) and no
\* marker under test.
ParserIdle ==
    /\ marker = ""
    /\ marker_built = NoMarker
    /\ marker_result = NoMarkerResult
    /\ content = ""
    /\ parse_lines = <<>>
    /\ parse_i = 0
    /\ parse_elements = <<>>
    /\ assembled = ""
    /\ reparsed = <<>>

\* ------------------------------------------------- ContentAnalyzer.analyze

\* _analyze_theme: the title (marked when it holds a technical keyword);
\* without a title the head of the first paragraph of more than 20
\* characters, else the generic theme.
AnalyzeTheme(d) ==
    IF d.title.text # ""
    THEN IF d.title.tech THEN "tech:" \o d.title.text ELSE d.title.text
    ELSE LET ps == { i \in 1..Len(d.elements) :
                       /\ d.elements[i].type = "paragraph"
                       /\ d.elements[i].word_count > 20 }
         IN  IF ps # {}
             THEN d.elements[CHOOSE i \in ps : \A j \in ps : i <= j].content.text
                      \o "..."
             ELSE "generic"

\* The keys of config['prompts'] (the default configuration).
PromptKeys == {"cover", "section", "atmospheric"}

\* _generate_prompt_from_template: the template of the image type (that of
\* 'section' when the type has none) filled with the element's content; the
\* cover template also takes the theme, the atmospheric one a summary.
GeneratePromptFromTemplate(element, d, image_type) ==
    [template |-> IF image_type \in PromptKeys THEN image_type ELSE "section",
     text     |-> element.content.text,
     theme    |-> IF image_type = "cover" THEN d.theme ELSE "",
     summary  |-> image_type = "atmospheric"]

\* _determine_image_source as it would be if it tested the document type
\* before the cover.
DetermineImageSourceTypeFirst(image_type, doc_type, src) ==
    IF doc_type = "technical"
       /\ image_type \in {"section", "concept", "diagram"} THEN "mermaid"
    ELSE IF doc_type = "normal" THEN "unsplash"
    ELSE src

\* _determine_image_source.
DetermineImageSource(image_type, doc_type, src) ==
    IF image_type = "cover" THEN src
    ELSE IF doc_type = "technical"
            /\ image_type \in {"section", "concept", "diagram"} THEN "mermaid"
    ELSE IF doc_type = "normal" THEN "unsplash"
    ELSE src

NoDecision ==
    [element_index |-> -1, need_image |-> FALSE, image_type |-> "none",
     prompt |-> NoPrompt, reason |-> "", image_source |-> "none"]

ImageDecision(index, image_type, prompt, reason, source) ==
    [element_index |-> index, need_image |-> TRUE, image_type |-> image_type,
     prompt |-> prompt, reason |-> reason, image_source |-> source]

\* _create_cover_decision
CreateCoverDecision(element, d, index, src) ==
    ImageDecision(index, "cover",
                  GeneratePromptFromTemplate(element, d, "cover"),
                  "h1", DetermineImageSource("cover", d.doc_type, src))

\* _create_section_decision: 'concept' when the heading holds a concept
\* keyword, 'section' otherwise.
CreateSectionDecision(element, d, index, src) ==
    LET image_type == IF element.content.concept THEN "concept" ELSE "section"
    IN  ImageDecision(index, image_type,
                      GeneratePromptFromTemplate(element, d, image_type),
                      "h2", DetermineImageSource(image_type, d.doc_type, src))

\* _create_atmospheric_decision
CreateAtmosphericDecision(element, d, index, src) ==
    ImageDecision(index, "atmospheric",
                  GeneratePromptFromTemplate(element, d, "atmospheric"),
                  "long_paragraph",
                  DetermineImageSource("atmospheric", d.doc_type, src))

\* _should_add_section_image's loop as it would be if it added the words
\* of every element, paragraph or not.
RECURSIVE SectionWordsExceedAnyKind(_, _, _)
SectionWordsExceedAnyKind(elems, i, total_words) ==
    IF i >= Len(elems) THEN FALSE
    ELSE LET element == elems[i + 1] IN
         IF element.type = "heading" THEN FALSE
         ELSE LET total == total_words + element.word_count
              IN  IF total > SmartSectionWords THEN TRUE
                  ELSE SectionWordsExceedAnyKind(elems, i + 1, total)

\* _should_add_section_image, the loop from element i (0-based) on with
\* total_words so far: a heading ends it, a paragraph adds its word count,
\* and it answers True as soon as the total exceeds 100.
RECURSIVE SectionWordsExceed(_, _, _)
SectionWordsExceed(elems, i, total_words) ==
    IF i >= Len(elems) THEN FALSE
    ELSE LET element == elems[i + 1] IN
         IF element.type = "heading" THEN FALSE
         ELSE LET total == IF element.type = "paragraph"
                           THEN total_words + element.word_count
                           ELSE total_words
              IN  IF total > SmartSectionWords THEN TRUE
                  ELSE SectionWordsExceed(elems, i + 1, total)

\* _should_add_section_image as it would be if it looked at the element
\* right after the heading only.
ShouldAddSectionImageFirstOnly(d, heading_index) ==
    /\ heading_index + 1 < Len(d.elements)
    /\ d.elements[heading_index + 2].type = "paragraph"
    /\ d.elements[heading_index + 2].word_count > SmartSectionWords

ShouldAddSectionImage(d, heading_index) ==
    SectionWordsExceed(d.elements, heading_index + 1, 0)

\* _analyze_element as it would be if it passed over an element that
\* already carries an annotation.
AnalyzeElementOnce(element, d, index, r, src) ==
    IF element.need_image THEN NoDecision
    ELSE IF element.type = "heading" /\ element.level = 1
            /\ RuleGet(r, "h1_after", TRUE)
    THEN CreateCoverDecision(element, d, index, src)
    ELSE IF element.type = "heading" /\ element.level = 2
            /\ RuleGet(r, "h2_after", "smart") = "true"
    THEN CreateSectionDecision(element, d, index, src)
    ELSE IF element.type = "heading" /\ element.level = 2
            /\ RuleGet(r, "h2_after", "smart") = "smart"
            /\ ShouldAddSectionImage(d, index)
    THEN CreateSectionDecision(element, d, index, src)
    ELSE IF element.type = "paragraph"
            /\ element.word_count
                 >= RuleGet(r, "long_paragraph_threshold",
                            DefaultLongParagraphThreshold)
    THEN CreateAtmosphericDecision(element, d, index, src)
    ELSE NoDecision

\* _analyze_element: the first rule that fires decides; NoDecision is None.
AnalyzeElement(element, d, index, r, src) ==
    IF element.type = "heading" /\ element.level = 1
       /\ RuleGet(r, "h1_after", TRUE)
    THEN CreateCoverDecision(element, d, index, src)
    ELSE IF element.type = "heading" /\ element.level = 2
            /\ RuleGet(r, "h2_after", "smart") = "true"
    THEN CreateSectionDecision(element, d, index, src)
    ELSE IF element.type = "heading" /\ element.level = 2
            /\ RuleGet(r, "h2_after", "smart") = "smart"
            /\ ShouldAddSectionImage(d, index)
    THEN CreateSectionDecision(element, d, index, src)
    ELSE IF element.type = "paragraph"
            /\ element.word_count
                 >= RuleGet(r, "long_paragraph_threshold",
                            DefaultLongParagraphThreshold)
    THEN CreateAtmosphericDecision(element, d, index, src)
    ELSE NoDecision

\* The annotation as it would be if it put a new element, built from kind,
\* level and content, in place of the old one: position is back at the
\* constructor's default.
AnnotateRebuilt(elems, index, dec) ==
    [elems EXCEPT ![index + 1] =
        [MarkdownElement(@.type, @.level, @.content)
            EXCEPT !.need_image = TRUE,
                   !.image_type = dec.image_type,
                   !.image_prompt = dec.prompt]]

\* One element annotated in place (need_image, image_type, image_prompt).
Annotate(elems, index, dec) ==
    [elems EXCEPT ![index + 1] =
        [@ EXCEPT !.need_image = TRUE,
                  !.image_type = dec.image_type,
                  !.image_prompt = dec.prompt]]

\* analyze, lines 311-315.
HasH1(elems) ==
    \E i \in 1..Len(elems) : elems[i].type = "heading" /\ elems[i].level = 1

\* analyze, lines 320-327: the first element with non-blank content, as a
\* 0-based index; -1 when there is none (title_element is None).
TitleIndex(elems) ==
    LET nb == { i \in 1..Len(elems) : elems[i].content.chars > 0 }
    IN  IF nb = {} THEN -1 ELSE (CHOOSE i \in nb : \A j \in nb : i <= j) - 1

\* The state analyze carries through its pass.
ScanState(d, decs, last, count) ==
    [doc |-> d, decisions |-> decs, last_image_index |-> last,
     image_count |-> count]

\* The cover synthesis as it would be if it took the first element of the
\* document for the title element, blank or not.
SynthesizeCoverOnFirst(st, r, src) ==
    LET elems == st.doc.elements
    IN  IF ~HasH1(elems) /\ RuleGet(r, "h1_after", TRUE) /\ Len(elems) > 0
        THEN LET decision ==
                     ImageDecision(0, "cover",
                         GeneratePromptFromTemplate(elems[1], st.doc, "cover"),
                         "no_h1",
                         DetermineImageSource("cover", st.doc.doc_type, src))
             IN  [st EXCEPT
                    !.decisions = Append(@, decision),
                    !.doc.elements = Annotate(@, 0, decision),
                    !.image_count = @ + 1]
        ELSE st

\* analyze, lines 317-347: without a level-1 heading and with h1_after, a
\* cover Decision on the first non-blank element; image_count is
\* incremented, last_image_index is not touched.
SynthesizeCover(st, r, src) ==
    LET elems == st.doc.elements
        title_index == TitleIndex(elems)
    IN  IF ~HasH1(elems) /\ RuleGet(r, "h1_after", TRUE) /\ title_index >= 0
        THEN LET title_element == elems[title_index + 1]
                 cover_source ==
                     DetermineImageSource("cover", st.doc.doc_type, src)
                 cover_prompt ==
                     GeneratePromptFromTemplate(title_element, st.doc, "cover")
                 decision == ImageDecision(title_index, "cover", cover_prompt,
                                           "no_h1", cover_source)
             IN  [st EXCEPT
                    !.decisions = Append(@, decision),
                    !.doc.elements = Annotate(@, title_index, decision),
                    !.image_count = @ + 1]
        ELSE st

\* analyze, lines 349-373: the main scan from element i (0-based) on.
RECURSIVE MainScan(_, _, _, _)
MainScan(st, i, r, src) ==
    IF i >= Len(st.doc.elements) THEN st
    ELSE IF st.image_count >= RuleGet(r, "max_images_per_article",
                                      DefaultMaxImages) THEN st
    ELSE IF i - st.last_image_index
              < RuleGet(r, "min_gap_between_images", DefaultMinGap)
    THEN MainScan(st, i + 1, r, src)
    ELSE LET decision ==
                 AnalyzeElement(st.doc.elements[i + 1], st.doc, i, r, src)
         IN  IF decision.need_image
             THEN MainScan(
                    [st EXCEPT
                       !.decisions = Append(@, decision),
                       !.last_image_index = i,
                       !.image_count = @ + 1,
                       !.doc.elements = Annotate(@, i, decision)],
                    i + 1, r, src)
             ELSE MainScan(st, i + 1, r, src)

\* analyze: theme and doc_type are set on the document, then the cover is
\* synthesized and the elements are scanned.  The result holds the
\* annotated document and the returned Decision list.
AnalyzeResult(d, r, src) ==
    LET d1 == [d EXCEPT !.theme = AnalyzeTheme(d), !.doc_type = "normal"]
        st0 == ScanState(d1, <<>>,
                         -RuleGet(r, "min_gap_between_images", DefaultMinGap),
                         0)
    IN  MainScan(SynthesizeCover(st0, r, src), 0, r, src)

\* ------------------------------------- the previously assembled file

\* TYPE_NAMES, its keys in the order the code iterates them.
TypeNames ==
    <<"cover", "section", "concept", "atmospheric", "diagram", "code_concept">>

ImageTypes == { TypeNames[k] : k \in 1..Len(TypeNames) }

\* `for img_type, cn_name in TYPE_NAMES.items(): if <test>: return img_type`:
\* the first type, in TYPE_NAMES order, of the set that passes the test;
\* "none" when the loop ends without a match.
FirstType(S) ==
    LET ks == { k \in 1..Len(TypeNames) : TypeNames[k] \in S }
    IN  IF ks = {} THEN "none"
        ELSE TypeNames[CHOOSE k \in ks : \A j \in ks : k <= j]

\* A line of the file, kept by what the reconciler matches against it:
\*   "text"         any line without marker
\*   "blank"        an empty line
\*   "image"        ![alt](path); label is the type whose Chinese label
\*                  the alt-text holds ("none": a hand-inserted image)
\*   "candidate"    <!-- 候选N: ![alt](path) -->, a commented-out candidate
\*   "selected"     <!-- 候选图：从M张中选择第N张 -->
\*   "chosen"       a line starting with <!-- 候选 that holds 选择第N张
\*                  and is not a "selected" line
\*   "failed"       <!-- 所有候选图生成失败 -->
\*   "mermaid_open" ```mermaid
\*   "fence"        ```
\*   "diagram"      a line of diagram source; grammar is the diagram
\*                  keyword it declares ("none": no keyword)
\*   "caption"      the caption the Assembler writes for an image of type
\*                  label: *文章封面：..*, *章节插图：..*, *概念示意图：..*
Line(kind, label, grammar, path, n) ==
    [kind |-> kind, label |-> label, grammar |-> grammar, path |-> path,
     n |-> n]

TextLine == Line("text", "none", "none", "", 0)
BlankLine == Line("blank", "none", "none", "", 0)
ImageLine(label, path) == Line("image", label, "none", path, 0)
FailedLine == Line("failed", "none", "none", "", 0)
MermaidOpenLine == Line("mermaid_open", "none", "none", "", 0)
FenceLine == Line("fence", "none", "none", "", 0)
DiagramLine(grammar) == Line("diagram", "none", grammar, "", 0)
CaptionLine(label) == Line("caption", label, "none", "", 0)
SelectedLine(n) == Line("selected", "none", "none", "", n)
CandidateLine(label, path, n) == Line("candidate", label, "none", path, n)

\* line.strip().startswith('```')
StartsWithFence(l) == l.kind \in {"mermaid_open", "fence"}
\* 'mermaid' in line
HasMermaidWord(l) == l.kind = "mermaid_open"
\* any(keyword in line.lower() for keyword in [...]), lines 90-94
HasMermaidKeyword(l) == l.kind = "diagram" /\ l.grammar # "none"
\* cn_name of type t occurs in the line
CnNameIn(l, t) ==
    \/ l.kind \in {"image", "candidate", "chosen"} /\ l.label = t
    \/ l.kind = "caption" /\ l.label = "concept" /\ t = "concept"
\* "文章" + cn_name of type t without '图' occurs in the line
ArticleNameIn(l, t) == l.kind = "caption" /\ l.label = "cover" /\ t = "cover"
\* image_pattern.search(line) finds ![alt](path)
HasImageRef(l) == l.kind \in {"image", "candidate"}

\* Python's s[a:b] for 0 <= a, b (0-based, b excluded).
PySlice(s, a, b) ==
    LET hi == IF b < Len(s) THEN b ELSE Len(s)
    IN  IF a >= hi THEN <<>> ELSE SubSeq(s, a + 1, hi)

Max0(x) == IF x < 0 THEN 0 ELSE x

\* An artifact reference: a file path, the empty string, or the marker
\* MERMAID_CODE:<kind>:<source>.
FilePath(p) == [scheme |-> "file", kind |-> "", body |-> <<p>>]
EmptyPath == [scheme |-> "file", kind |-> "", body |-> <<"">>]
MermaidMarker(kind, source) ==
    [scheme |-> "MERMAID_CODE", kind |-> kind, body |-> source]
\* None in image_paths
NoPath == [scheme |-> "none", kind |-> "", body |-> <<>>]

ExistingImage(index, image_type, image_path, line_number, is_failed) ==
    [index |-> index, image_type |-> image_type, image_path |-> image_path,
     line_number |-> line_number, is_failed |-> is_failed]

\* _parse_image_type_from_context as it would be if it read the grammar
\* keyword of the block before the labels around it.
ParseImageTypeFromContextGrammarFirst(ls, start_line, end_line) ==
    LET context == PySlice(ls, Max0(start_line - 10), end_line + 5)
        cn == { t \in ImageTypes :
                  \E k \in 1..Len(context) : CnNameIn(context[k], t) }
        art == { t \in ImageTypes :
                   \E k \in 1..Len(context) : ArticleNameIn(context[k], t) }
        code == PySlice(ls, start_line, end_line)
        has(g) == \E k \in 1..Len(code) :
                     code[k].kind = "diagram" /\ code[k].grammar = g
    IN  IF has("stateDiagram") THEN "concept"
        ELSE IF has("sequenceDiagram") THEN "section"
        ELSE IF has("flowchart") THEN "code_concept"
        ELSE IF has("classDiagram") THEN "concept"
        ELSE IF has("mindmap") THEN "cover"
        ELSE IF cn \cup art # {} THEN FirstType(cn \cup art)
        ELSE "none"

\* _parse_image_type_from_context: the labels of the lines from 10 before
\* the block to 5 after its end, then the grammar keyword of the block.
ParseImageTypeFromContext(ls, start_line, end_line) ==
    LET context == PySlice(ls, Max0(start_line - 10), end_line + 5)
        cn == { t \in ImageTypes :
                  \E k \in 1..Len(context) : CnNameIn(context[k], t) }
        art == { t \in ImageTypes :
                   \E k \in 1..Len(context) : ArticleNameIn(context[k], t) }
        code == PySlice(ls, start_line, end_line)
        has(g) == \E k \in 1..Len(code) :
                     code[k].kind = "diagram" /\ code[k].grammar = g
    IN  IF (\E k \in 1..Len(context) : context[k].kind = "selected")
           /\ cn # {}
        THEN FirstType(cn)
        ELSE IF cn \cup art # {} THEN FirstType(cn \cup art)
        ELSE IF has("stateDiagram") THEN "concept"
        ELSE IF has("sequenceDiagram") THEN "section"
        ELSE IF has("flowchart") THEN "code_concept"
        ELSE IF has("classDiagram") THEN "concept"
        ELSE IF has("mindmap") THEN "cover"
        ELSE "none"

NoInfo == [image_type |-> "none", has_index |-> FALSE, index |-> 0]
Info(image_type, index) ==
    [image_type |-> image_type, has_index |-> TRUE, index |-> index]

\* _parse_image_info_from_context, lines 233-253: the first "chosen" line
\* among the 10 lines above that names a type gives (type, N - 1).
RECURSIVE ChosenInfo(_, _, _)
ChosenInfo(ls, i, line_num) ==
    IF i >= line_num THEN NoInfo
    ELSE LET l == ls[i + 1]
             ts == { t \in ImageTypes : CnNameIn(l, t) }
         IN  IF l.kind = "chosen" /\ ts # {}
             THEN Info(FirstType(ts), l.n - 1)
             ELSE ChosenInfo(ls, i + 1, line_num)

RECURSIVE SumSeq(_)
SumSeq(s) == IF s = <<>> THEN 0 ELSE Head(s) + SumSeq(Tail(s))

\* _parse_image_info_from_context: else the first type whose label occurs in
\* the 5 lines above, with the number of occurrences minus one as index.
ParseImageInfoFromContext(ls, line_num) ==
    LET chosen == ChosenInfo(ls, Max0(line_num - 10), line_num)
        prev == PySlice(ls, Max0(line_num - 5), line_num)
        cn == { t \in ImageTypes :
                  \E k \in 1..Len(prev) : CnNameIn(prev[k], t) }
        count(t) == SumSeq([k \in 1..Len(prev) |->
                              IF CnNameIn(prev[k], t) THEN 1 ELSE 0])
    IN  IF chosen.image_type # "none" THEN chosen
        ELSE IF line_num > 0 /\ cn # {}
        THEN Info(FirstType(cn), count(FirstType(cn)) - 1)
        ELSE NoInfo

\* _is_auto_generated_image: the alt-text holds one of the type labels.
IsAutoGeneratedImage(l) == l.label # "none"

\* _parse_image_info_from_alt_text: the type whose label the alt-text holds,
\* and no index (None) in either case.
ParseImageInfoFromAltText(l) ==
    IF l.label # "none"
    THEN [image_type |-> l.label, has_index |-> FALSE, index |-> 0]
    ELSE NoInfo


\* The text of a line as it is collected into a diagram's source.
LineText(l) ==
    IF l.kind = "diagram" THEN l.grammar
    ELSE IF l.kind = "blank" THEN ""
    ELSE l.kind \o ":" \o l.path

\* image_path.startswith("MERMAID_CODE:")
IsMarkerText(path) == path = "MERMAID_CODE:"

\* The state parse_existing_images carries from line to line.
InitParseState ==
    [in_mermaid_block |-> FALSE,
     mermaid_lines |-> <<>>,
     mermaid_start_line |-> 0,
     type_counters |-> [t \in ImageTypes |-> 0],
     existing_images |-> <<>>]

\* parse_existing_images, lines 85-100: a fence line opens a diagram block
\* when it holds 'mermaid' or the line two below holds a diagram keyword.
OpensMermaidBlock(ls, line_num) ==
    /\ StartsWithFence(ls[line_num + 1])
    /\ \/ HasMermaidWord(ls[line_num + 1])
       \/ line_num + 2 < Len(ls) /\ HasMermaidKeyword(ls[line_num + 3])

\* parse_existing_images, lines 102-131: a line inside a diagram block.
InMermaidBlock(ps, ls, line_num) ==
    LET l == ls[line_num + 1] IN
    IF StartsWithFence(l) /\ ~HasMermaidWord(l)
    THEN LET image_type ==
                 ParseImageTypeFromContext(ls, ps.mermaid_start_line, line_num)
         IN  IF image_type # "none"
             THEN [ps EXCEPT
                     !.in_mermaid_block = FALSE,
                     !.mermaid_lines = <<>>,
                     !.type_counters[image_type] = @ + 1,
                     !.existing_images = Append(@,
                         ExistingImage(ps.type_counters[image_type],
                                       image_type,
                                       MermaidMarker(image_type,
                                                     ps.mermaid_lines),
                                       ps.mermaid_start_line, FALSE))]
             ELSE [ps EXCEPT !.in_mermaid_block = FALSE,
                             !.mermaid_lines = <<>>]
    ELSE IF l.kind # "mermaid_open"
    THEN [ps EXCEPT !.mermaid_lines = Append(@, LineText(l))]
    ELSE ps

\* parse_existing_images, lines 133-145: the failure sentinel.
FailedSentinel(ps, ls, line_num) ==
    LET info == ParseImageInfoFromContext(ls, line_num) IN
    IF info.image_type # "none" /\ info.has_index
    THEN [ps EXCEPT !.existing_images = Append(@,
              ExistingImage(info.index, info.image_type, EmptyPath,
                            line_num, TRUE))]
    ELSE ps

\* The standard-image branch as it would be if every image reference were
\* reclaimed, one without type label as a cover.
StandardImageAny(ps, ls, line_num) ==
    LET l == ls[line_num + 1]
        image_type == IF l.label # "none" THEN l.label ELSE "cover"
    IN  IF ~HasImageRef(l) THEN ps
        ELSE [ps EXCEPT
                !.type_counters[image_type] = @ + 1,
                !.existing_images = Append(@,
                    ExistingImage(ps.type_counters[image_type], image_type,
                                  FilePath(l.path), line_num, FALSE))]

\* parse_existing_images, lines 147-170: a standard image reference.
StandardImage(ps, ls, line_num) ==
    LET l == ls[line_num + 1] IN
    IF ~HasImageRef(l) THEN ps
    ELSE IF ~IsAutoGeneratedImage(l) THEN ps
    ELSE IF IsMarkerText(l.path) THEN ps
    ELSE LET info == ParseImageInfoFromAltText(l) IN
         IF info.image_type # "none" /\ info.has_index
         THEN [ps EXCEPT !.existing_images = Append(@,
                   ExistingImage(info.index, info.image_type,
                                 FilePath(l.path), line_num, FALSE))]
         ELSE ps

\* parse_existing_images, the body of the loop for one line.
ParseLine(ps, ls, line_num) ==
    IF OpensMermaidBlock(ls, line_num)
    THEN [ps EXCEPT !.in_mermaid_block = TRUE,
                    !.mermaid_start_line = line_num,
                    !.mermaid_lines = <<>>]
    ELSE IF ps.in_mermaid_block THEN InMermaidBlock(ps, ls, line_num)
    ELSE IF ls[line_num + 1].kind = "failed"
    THEN FailedSentinel(ps, ls, line_num)
    ELSE StandardImage(ps, ls, line_num)

RECURSIVE ParseLines(_, _, _)
ParseLines(ps, ls, line_num) ==
    IF line_num >= Len(ls) THEN ps
    ELSE ParseLines(ParseLine(ps, ls, line_num), ls, line_num + 1)

\* parse_existing_images: the ExistingImages of the file, top to bottom.
ParseExistingImages(ls) == ParseLines(InitParseState, ls, 0).existing_images

\* ------------------------------------------------ selection and plan

Selector(has_index, index, type, failed) ==
    [has_index |-> has_index, regenerate_index |-> index,
     regenerate_type |-> type, regenerate_failed |-> failed]

\* regenerate_index=None, regenerate_type=None, regenerate_failed=False
NoSelector == Selector(FALSE, 0, "none", FALSE)

\* sorted(set(xs)) as a sequence.
RECURSIVE SortedSeq(_)
SortedSeq(S) ==
    IF S = {} THEN <<>>
    ELSE LET m == CHOOSE x \in S : \A y \in S : x <= y
         IN  <<m>> \o SortedSeq(S \ {m})

\* filter_images_to_regenerate as it would be if every selector supplied
\* added its ordinals.
FilterImagesToRegenerateUnion(existing, decs, sel) ==
    SortedSeq(
      (IF sel.has_index /\ 0 <= sel.regenerate_index
          /\ sel.regenerate_index < Len(decs)
       THEN {sel.regenerate_index} ELSE {})
      \cup (IF sel.regenerate_type # "none"
            THEN { i \in 0..(Len(decs) - 1) :
                     decs[i + 1].image_type = sel.regenerate_type }
            ELSE {})
      \cup (IF sel.regenerate_failed
            THEN { existing[k].index : k \in
                     { j \in 1..Len(existing) :
                         /\ existing[j].is_failed
                         /\ existing[j].index < Len(decs) } }
            ELSE {}))

\* filter_images_to_regenerate: the first selector supplied, in the order
\* index, type, failed, decides.
FilterImagesToRegenerate(existing, decs, sel) ==
    IF sel.has_index
    THEN IF 0 <= sel.regenerate_index /\ sel.regenerate_index < Len(decs)
         THEN <<sel.regenerate_index>> ELSE <<>>
    ELSE IF sel.regenerate_type # "none"
    THEN SortedSeq({ i \in 0..(Len(decs) - 1) :
                       decs[i + 1].image_type = sel.regenerate_type })
    ELSE IF sel.regenerate_failed
    THEN SortedSeq({ existing[k].index : k \in
                       { j \in 1..Len(existing) :
                           /\ existing[j].is_failed
                           /\ existing[j].index < Len(decs) } })
    ELSE <<>>

EmptyPlan == [keep |-> <<>>, regenerate |-> <<>>, missing |-> <<>>]

InSeq(x, s) == \E k \in 1..Len(s) : s[k] = x

\* next(img for img in existing_images if img.index == i)
FirstWithIndex(existing, i) ==
    existing[CHOOSE k \in 1..Len(existing) :
               /\ existing[k].index = i
               /\ \A j \in 1..(k - 1) : existing[j].index # i]

\* An entry of plan['regenerate'] or plan['missing'].
PlanEntry(i, decision) ==
    [index |-> i, image_type |-> decision.image_type,
     prompt |-> decision.prompt, reason |-> decision.reason]

\* An entry of plan['keep'].
KeepEntry(i, img) ==
    [index |-> i, image_path |-> img.image_path,
     image_type |-> img.image_type]

\* The bucket test as it would be with independent tests: a selected
\* ordinal that also has a recovered image lands in both buckets.
PlanStepOverlapping(pl, existing, i, decision, regen) ==
    LET p1 == IF InSeq(i, regen)
              THEN [pl EXCEPT !.regenerate = Append(@, PlanEntry(i, decision))]
              ELSE pl
    IN  IF \E k \in 1..Len(existing) : existing[k].index = i
        THEN [p1 EXCEPT !.keep =
                 Append(@, KeepEntry(i, FirstWithIndex(existing, i)))]
        ELSE IF InSeq(i, regen) THEN p1
        ELSE [p1 EXCEPT !.missing = Append(@, PlanEntry(i, decision))]

\* create_regenerate_plan, lines 373-396: the bucket of Decision i.
PlanStep(pl, existing, i, decision, regen) ==
    IF InSeq(i, regen)
    THEN [pl EXCEPT !.regenerate = Append(@, PlanEntry(i, decision))]
    ELSE IF \E k \in 1..Len(existing) : existing[k].index = i
    THEN [pl EXCEPT !.keep =
             Append(@, KeepEntry(i, FirstWithIndex(existing, i)))]
    ELSE [pl EXCEPT !.missing = Append(@, PlanEntry(i, decision))]

RECURSIVE PlanFrom(_, _, _, _, _)
PlanFrom(pl, existing, decs, regen, i) ==
    IF i >= Len(decs) THEN pl
    ELSE PlanFrom(PlanStep(pl, existing, i, decs[i + 1], regen),
                  existing, decs, regen, i + 1)

\* create_regenerate_plan
CreateRegeneratePlan(existing, decs, regen) ==
    PlanFrom(EmptyPlan, existing, decs, regen, 0)

\* --------------------------------------------------------------- actions

Init ==
    /\ doc \in { MarkdownDocument(es) : es \in ElementSeqs }
    /\ rules \in RuleConfigs
    /\ image_source = "zhipu"
    /\ decisions = <<>>
    /\ prevDecisions = <<>>
    /\ calls = 0
    /\ lines = <<>>
    /\ selector = NoSelector
    /\ existing_images = <<>>
    /\ regenerate_indices = <<>>
    /\ plan = EmptyPlan
    /\ at_base = TRUE
    /\ batch = 1
    /\ run = 1
    /\ image_paths = <<>>
    /\ generate_indices = <<>>
    /\ generated = <<>>
    /\ prev_paths = <<>>
    /\ ParserIdle
    /\ QuotaIdle
    /\ AbIdle
    /\ SourceIdle
    /\ pc = "analyze"

\* ContentAnalyzer.analyze(doc): the document is annotated in place and the
\* Decision list returned.
Analyze ==
    /\ calls < MaxCalls
    /\ LET res == AnalyzeResult(doc, rules, image_source)
       IN  /\ doc' = res.doc
           /\ decisions' = res.decisions
    /\ prevDecisions' = decisions
    /\ calls' = calls + 1
    /\ UNCHANGED parserVars
    /\ UNCHANGED markerVars
    /\ UNCHANGED quotaVars
    /\ UNCHANGED abVars
    /\ UNCHANGED sourceVars
    /\ UNCHANGED <<rules, image_source, lines, selector, existing_images,
                   regenerate_indices, plan, pc>>
    /\ UNCHANGED illustrateVars

Next == Analyze

Spec == Init /\ [][Next]_vars

\* ------------------------------------------- reconciliation of a file

\* The blocks a previous file is made of: a text line, an image the
\* Assembler wrote for a cover or a section, a hand-inserted image, the
\* failure sentinel, and a diagram block as the Assembler writes it.
BlockAlphabet ==
    { <<TextLine>>,
      <<ImageLine("cover", "a.png")>>,
      <<ImageLine("section", "b.png")>>,
      <<ImageLine("none", "user.png")>>,
      <<FailedLine>>,
      <<MermaidOpenLine, BlankLine, DiagramLine("sequenceDiagram"),
        BlankLine, FenceLine>> }

\* MarkdownAssembler.assemble, line 99: '\n\n'.join(lines).
RECURSIVE JoinBlocks(_)
JoinBlocks(bs) ==
    IF bs = <<>> THEN <<>>
    ELSE IF Len(bs) = 1 THEN bs[1]
    ELSE bs[1] \o <<BlankLine>> \o JoinBlocks(Tail(bs))

Files ==
    { JoinBlocks(bs) :
        bs \in UNION { [1..n -> BlockAlphabet] : n \in 0..MaxBlocks } }

\* The kinds of the Decisions a file is reconciled against.
DecisionKinds == {"cover", "section"}

\* The Decision of slot k (1-based) of kind t.
SlotDecision(k, t) ==
    ImageDecision(DefaultMinGap * (k - 1), t,
                  [template |-> t, text |-> "slot", theme |-> "",
                   summary |-> FALSE],
                  "slot", IF t = "cover" THEN "zhipu" ELSE "unsplash")

DecisionLists ==
    { [k \in 1..Len(ks) |-> SlotDecision(k, ks[k])] :
        ks \in UNION { [1..n -> DecisionKinds] : n \in 0..MaxDecisions } }

OnlyFailed == Selector(FALSE, 0, "none", TRUE)

\* by_ordinal(n), by_kind(k), only_failed, or none.
Selectors ==
    {NoSelector, OnlyFailed}
    \cup { Selector(TRUE, i, "none", FALSE) : i \in 0..MaxDecisions }
    \cup { Selector(FALSE, 0, t, FALSE) : t \in DecisionKinds }

InitRegen ==
    /\ doc = MarkdownDocument(<<>>)
    /\ rules \in { r \in RuleConfigs :
                     /\ r.h1_after /\ r.h2_after = "smart"
                     /\ r.min_gap_between_images = DefaultMinGap
                     /\ r.max_images_per_article = DefaultMaxImages }
    /\ image_source = "zhipu"
    /\ decisions \in DecisionLists
    /\ prevDecisions = <<>>
    /\ calls = 0
    /\ lines \in Files
    /\ selector = NoSelector
    /\ existing_images = <<>>
    /\ regenerate_indices = <<>>
    /\ plan = EmptyPlan
    /\ at_base = TRUE
    /\ batch = 1
    /\ run = 1
    /\ image_paths = <<>>
    /\ generate_indices = <<>>
    /\ generated = <<>>
    /\ prev_paths = <<>>
    /\ ParserIdle
    /\ QuotaIdle
    /\ AbIdle
    /\ SourceIdle
    /\ pc = "regenerate"

\* parse_for_regeneration(markdown_path, config, decisions, regenerate_index,
\* regenerate_type, regenerate_failed): recover, select, plan.
ParseForRegeneration ==
    /\ pc = "regenerate"
    /\ \E sel \in Selectors :
         LET existing == ParseExistingImages(lines)
             regen == FilterImagesToRegenerate(existing, decisions, sel)
         IN  /\ selector' = sel
             /\ existing_images' = existing
             /\ regenerate_indices' = regen
             /\ plan' = CreateRegeneratePlan(existing, decisions, regen)
    /\ pc' = "planned"
    /\ UNCHANGED parserVars
    /\ UNCHANGED markerVars
    /\ UNCHANGED quotaVars
    /\ UNCHANGED abVars
    /\ UNCHANGED sourceVars
    /\ UNCHANGED <<doc, rules, image_source, decisions, prevDecisions, calls,
                   lines>>
    /\ UNCHANGED illustrateVars

\* The ExistingImages create_regenerate_plan may be handed: any list of at
\* most MaxDecisions images, whatever their index, kind and failure mark.
ExistingImageLists ==
    LET images == { ExistingImage(i, t, FilePath("a.png"), 0, f) :
                      i \in 0..(MaxDecisions - 1), t \in DecisionKinds,
                      f \in BOOLEAN }
    IN  UNION { [1..n -> images] : n \in 0..MaxDecisions }

\* create_regenerate_plan(existing_images, decisions, regenerate_indices)
\* called on its own, on any list of images and any list of ordinals.
CreatePlan ==
    /\ pc = "regenerate"
    /\ lines = <<>>
    /\ \E existing \in ExistingImageLists,
          S \in SUBSET (0..MaxDecisions) :
         /\ existing_images' = existing
         /\ regenerate_indices' = SortedSeq(S)
         /\ plan' = CreateRegeneratePlan(existing, decisions, SortedSeq(S))
    /\ pc' = "planned_direct"
    /\ UNCHANGED parserVars
    /\ UNCHANGED markerVars
    /\ UNCHANGED quotaVars
    /\ UNCHANGED abVars
    /\ UNCHANGED sourceVars
    /\ UNCHANGED <<doc, rules, image_source, decisions, prevDecisions, calls,
                   lines, selector>>
    /\ UNCHANGED illustrateVars

NextRegen == ParseForRegeneration \/ CreatePlan

SpecRegen == InitRegen /\ [][NextRegen]_vars

\* ------------------------------------------------ MarkdownAssembler

\* The diagram keywords a line of diagram source may declare.
Grammars ==
    {"stateDiagram", "sequenceDiagram", "flowchart", "classDiagram",
     "mindmap", "gantt", "erDiagram"}

\* A line of diagram source as a line of the file.
SourceLine(s) ==
    IF s = "" THEN BlankLine
    ELSE DiagramLine(IF s \in Grammars THEN s ELSE "none")

\* A batch entry of image_paths: the list of the candidates of a slot.
ListPath(candidates) ==
    [scheme |-> "list", kind |-> "", body |-> candidates]

\* `if image_path:` -- None, '' and [] are falsy.
Truthy(p) ==
    CASE p.scheme = "none" -> FALSE
      [] p.scheme = "file" -> p.body # <<"">>
      [] p.scheme = "list" -> p.body # <<>>
      [] OTHER -> TRUE

\* is_mermaid_code: the string starts with MERMAID_CODE:
IsMermaidCode(p) == p.scheme = "MERMAID_CODE"

\* '\n'.join(source)
RECURSIVE JoinText(_)
JoinText(ss) ==
    IF ss = <<>> THEN ""
    ELSE IF Len(ss) = 1 THEN ss[1]
    ELSE ss[1] \o "\n" \o JoinText(Tail(ss))

\* The text of an artifact reference.
PathText(p) ==
    IF IsMermaidCode(p)
    THEN "MERMAID_CODE:" \o p.kind \o ":" \o JoinText(p.body)
    ELSE p.body[1]

\* _get_relative_path(image_path, base_dir): the reference is resolved
\* against the working directory and made relative to the output file's
\* directory.  A path under output/images (where the generator saves, and
\* the only file paths handed in here) comes back as it was, relative to
\* the output directory or to the working directory.  A diagram marker is
\* handled as a path as well: with the working directory at the output
\* directory it comes back unchanged, elsewhere it comes back as an
\* absolute file path.
GetRelativePath(p, base) ==
    IF p.scheme = "none" THEN p
    ELSE IF IsMermaidCode(p) /\ ~base
    THEN FilePath("/cwd/" \o PathText(p))
    ELSE p

\* _generate_alt_text: the Chinese label of element.image_type in the
\* alt-text ("none": the fallback label, which names no type).
GenerateAltText(image_type) ==
    IF image_type \in {"cover", "section", "concept", "atmospheric",
                       "diagram"}
    THEN image_type ELSE "none"

\* _generate_caption and the add_caption test: the caption line, if any.
GenerateCaption(image_type) ==
    IF image_type \in {"cover", "section", "concept"}
    THEN <<CaptionLine(image_type)>> ELSE <<>>

\* The candidates that did not fail, as their indices (0-based).
Succeeded(candidates) ==
    { i \in 0..(Len(candidates) - 1) : candidates[i + 1].scheme # "none" }

\* One file line per string.
Blocks(strings) == [k \in 1..Len(strings) |-> <<strings[k]>>]

\* _format_batch_candidates on candidates that are file paths: the failure
\* sentinel when all failed, else the selection comment, the first
\* successful candidate, an empty string, the others commented out, the
\* caption.
FormatBatchCandidates(image_type, candidates) ==
    LET ok == Succeeded(candidates) IN
    IF ok = {} THEN Blocks(<<FailedLine>>)
    ELSE LET default_index == CHOOSE i \in ok : \A j \in ok : i <= j
             alt == GenerateAltText(image_type)
             others == SortedSeq(ok \ {default_index})
         IN  Blocks(<<SelectedLine(default_index + 1),
                      ImageLine(alt, PathText(candidates[default_index + 1])),
                      BlankLine, TextLine>>
                    \o [k \in 1..Len(others) |->
                          CandidateLine(alt,
                                        PathText(candidates[others[k] + 1]),
                                        others[k] + 1)]
                    \o <<TextLine>>
                    \o GenerateCaption(image_type))

\* _format_image: the strings appended for the artifact of an element, each
\* with the file lines it holds (the diagram source is one string of
\* several lines).
FormatImage(image_type, p, batch_mode) ==
    IF batch_mode /\ p.scheme = "list"
    THEN FormatBatchCandidates(image_type, p.body)
    ELSE IF IsMermaidCode(p) /\ p.body # <<>>
    THEN <<<<MermaidOpenLine>>,
           [k \in 1..Len(p.body) |-> SourceLine(p.body[k])],
           <<FenceLine>>>>
         \o Blocks(GenerateCaption(image_type))
    ELSE Blocks(<<ImageLine(GenerateAltText(image_type), PathText(p))>>
                \o GenerateCaption(image_type))

\* The elements of the document the Decisions were taken on: element e
\* (0-based) carries the Decision whose element_index it is, if any.
DecisionAt(decs, e) ==
    { k \in 1..Len(decs) : decs[k].element_index = e }

ElementCount(decs) ==
    IF decs = <<>> THEN 1 ELSE decs[Len(decs)].element_index + 1

\* MarkdownAssembler.assemble, lines 66-97: each element, and after the
\* k-th element that needs an image the artifact image_paths[k], if truthy.
RECURSIVE AssembleFrom(_, _, _, _, _, _)
AssembleFrom(decs, paths, base, batch_mode, e, image_index) ==
    IF e >= ElementCount(decs) THEN <<>>
    ELSE LET need_image == DecisionAt(decs, e) # {}
             insert == need_image /\ image_index < Len(paths)
             image_type == decs[CHOOSE k \in DecisionAt(decs, e) : TRUE]
                               .image_type
             p == paths[image_index + 1]
             rel == IF batch_mode \/ p.scheme = "list"
                    THEN ListPath([k \in 1..Len(p.body) |->
                                     GetRelativePath(p.body[k], base)])
                    ELSE GetRelativePath(p, base)
         IN  <<<<TextLine>>>>
             \o (IF insert /\ Truthy(p)
                 THEN FormatImage(image_type, rel, batch_mode) ELSE <<>>)
             \o AssembleFrom(decs, paths, base, batch_mode, e + 1,
                             IF insert THEN image_index + 1
                             ELSE image_index)

\* MarkdownAssembler.assemble: '\n\n'.join(lines).
Assemble(decs, paths, base, batch_mode) ==
    JoinBlocks(AssembleFrom(decs, paths, base, batch_mode, 0, 0))

\* ------------------------------------ MarkdownIllustrator.illustrate

Digits == <<"0", "1", "2", "3", "4", "5">>
RunStamps == <<"run1", "run2">>

\* ImageGenerator.generate(prompt, index, image_type, candidate_index): the
\* path of the saved file, output/images/<index>_<type>_<timestamp>.png,
\* with the candidate index after the timestamp when it is above 0.
GeneratedPath(r, index, image_type, candidate_index) ==
    FilePath("output/images/" \o Digits[index + 1] \o "_" \o image_type
             \o "_" \o RunStamps[r]
             \o (IF candidate_index > 0
                 THEN "_00" \o Digits[candidate_index + 1] ELSE "")
             \o ".png")

\* What the diagram backend returns: the marker of a diagram source.
GeneratedDiagram == MermaidMarker("sequence", <<"sequenceDiagram">>)

\* The batch sizes illustrate is run with.
BatchSizes == {1, 2}

\* illustrate, lines 279-282: image_paths before generation.
InitialImagePaths(decs, b) ==
    [k \in 1..Len(decs) |-> IF b > 1 THEN ListPath(<<>>) ELSE NoPath]

\* illustrate, lines 285-290: the kept artifacts are filled in.
FillKept(paths, keep) ==
    [k \in 1..Len(paths) |->
       IF \E j \in 1..Len(keep) : keep[j].index = k - 1
       THEN keep[CHOOSE j \in 1..Len(keep) :
                   /\ keep[j].index = k - 1
                   /\ \A h \in (j + 1)..Len(keep) : keep[h].index # k - 1]
                .image_path
       ELSE paths[k]]

\* The input of the first run: a document without image.
InitIllustrate ==
    /\ doc = MarkdownDocument(<<>>)
    /\ rules \in { r \in RuleConfigs :
                     /\ r.h1_after /\ r.h2_after = "smart"
                     /\ r.min_gap_between_images = DefaultMinGap
                     /\ r.max_images_per_article = DefaultMaxImages }
    /\ image_source = "zhipu"
    /\ decisions \in DecisionLists
    /\ prevDecisions = <<>>
    /\ calls = 0
    /\ lines = Assemble(decisions, <<>>, TRUE, FALSE)
    /\ selector = NoSelector
    /\ existing_images = <<>>
    /\ regenerate_indices = <<>>
    /\ plan = EmptyPlan
    /\ at_base \in BOOLEAN
    /\ batch \in BatchSizes
    /\ run = 1
    /\ image_paths = <<>>
    /\ generate_indices = <<>>
    /\ generated = <<>>
    /\ prev_paths = <<>>
    /\ ParserIdle
    /\ QuotaIdle
    /\ AbIdle
    /\ SourceIdle
    /\ pc = "illustrate"

\* illustrate without selector, up to the generation loop (lines 200-310):
\* every ordinal is to be generated.
IllustrateAll ==
    /\ pc = "illustrate"
    /\ run = 1
    /\ IF decisions = <<>>
       THEN /\ pc' = "done"
            /\ UNCHANGED <<image_paths, generate_indices>>
       ELSE /\ image_paths' = InitialImagePaths(decisions, batch)
            /\ generate_indices' =
                   [k \in 1..Len(decisions) |-> k - 1]
            /\ pc' = "generate"
    /\ generated' = <<>>
    /\ UNCHANGED parserVars
    /\ UNCHANGED markerVars
    /\ UNCHANGED quotaVars
    /\ UNCHANGED abVars
    /\ UNCHANGED sourceVars
    /\ UNCHANGED <<doc, rules, image_source, decisions, prevDecisions, calls,
                   lines, selector, existing_images, regenerate_indices,
                   plan, at_base, batch, run, prev_paths>>

\* illustrate with a selector, up to the generation loop (lines 200-310),
\* run on the file the first run wrote, with the Decisions of the first
\* run and batch 1: the plan is made, the run ends when nothing is to be
\* regenerated and nothing is missing, else the kept artifacts are filled
\* in and the ordinals of regenerate and missing are to be generated.
IllustrateSelected ==
    /\ pc = "illustrate"
    /\ run = 2
    /\ \E sel \in Selectors \ {NoSelector} :
         LET existing == ParseExistingImages(lines)
             regen == FilterImagesToRegenerate(existing, decisions, sel)
             pl == CreateRegeneratePlan(existing, decisions, regen)
         IN  /\ selector' = sel
             /\ existing_images' = existing
             /\ regenerate_indices' = regen
             /\ plan' = pl
             /\ IF decisions = <<>>
                   \/ (pl.regenerate = <<>> /\ pl.missing = <<>>)
                THEN /\ pc' = "done"
                     /\ image_paths' = <<>>
                     /\ generate_indices' = <<>>
                ELSE /\ image_paths' =
                            FillKept(InitialImagePaths(decisions, 1), pl.keep)
                     /\ generate_indices' =
                            SortedSeq({ pl.regenerate[k].index :
                                          k \in 1..Len(pl.regenerate) }
                                      \cup { pl.missing[k].index :
                                               k \in 1..Len(pl.missing) })
                     /\ pc' = "generate"
    /\ batch' = 1
    /\ generated' = <<>>
    /\ UNCHANGED parserVars
    /\ UNCHANGED markerVars
    /\ UNCHANGED quotaVars
    /\ UNCHANGED abVars
    /\ UNCHANGED sourceVars
    /\ UNCHANGED <<doc, rules, image_source, decisions, prevDecisions, calls,
                   lines, at_base, run, prev_paths>>

\* One pass of the generation loop (lines 312-421) for ordinal i.  Single
\* mode: the backend returns a path or a diagram marker, stored at i, or
\* raises, and None is appended.  Batch mode: each candidate is a path or,
\* the backend raising, None; the list is stored at i.
GenerateImage ==
    /\ pc = "generate"
    /\ generate_indices # <<>>
    /\ LET i == Head(generate_indices)
           image_type == decisions[i + 1].image_type
       IN  /\ IF batch > 1
              THEN \E ok \in [1..batch -> BOOLEAN] :
                     image_paths' = [image_paths EXCEPT ![i + 1] =
                         ListPath([c \in 1..batch |->
                             IF ok[c]
                             THEN GeneratedPath(run, i, image_type, c - 1)
                             ELSE NoPath])]
              ELSE \/ image_paths' = [image_paths EXCEPT ![i + 1] =
                          GeneratedPath(run, i, image_type, 0)]
                   \/ image_paths' = [image_paths EXCEPT ![i + 1] =
                          GeneratedDiagram]
                   \/ image_paths' = Append(image_paths, NoPath)
           /\ generated' = Append(generated, i)
    /\ generate_indices' = Tail(generate_indices)
    /\ UNCHANGED parserVars
    /\ UNCHANGED markerVars
    /\ UNCHANGED quotaVars
    /\ UNCHANGED abVars
    /\ UNCHANGED sourceVars
    /\ UNCHANGED <<doc, rules, image_source, decisions, prevDecisions, calls,
                   lines, selector, existing_images, regenerate_indices,
                   plan, at_base, batch, run, prev_paths, pc>>

\* Step 4 (lines 424-431): the document is assembled with image_paths and
\* written over the input file.  After the first run the file is handed to
\* a second run.
AssembleMarkdown ==
    /\ pc = "generate"
    /\ generate_indices = <<>>
    /\ lines' = Assemble(decisions, image_paths, at_base, batch > 1)
    /\ IF run = 1
       THEN /\ prev_paths' = image_paths
            /\ run' = 2
            /\ pc' = "illustrate"
       ELSE /\ pc' = "done"
            /\ UNCHANGED <<prev_paths, run>>
    /\ UNCHANGED parserVars
    /\ UNCHANGED markerVars
    /\ UNCHANGED quotaVars
    /\ UNCHANGED abVars
    /\ UNCHANGED sourceVars
    /\ UNCHANGED <<doc, rules, image_source, decisions, prevDecisions, calls,
                   selector, existing_images, regenerate_indices, plan,
                   at_base, batch, image_paths, generate_indices, generated>>

NextIllustrate ==
    \/ IllustrateAll
    \/ IllustrateSelected
    \/ GenerateImage
    \/ AssembleMarkdown

SpecIllustrate == InitIllustrate /\ [][NextIllustrate]_vars

\* ------------------------------------------------- claims on the analysis

MinGap == RuleGet(rules, "min_gap_between_images", DefaultMinGap)
MaxImages == RuleGet(rules, "max_images_per_article", DefaultMaxImages)

\* C1 (gap invariant): any two Decisions of the returned list attached to
\* element positions p1 < p2 are at least min_gap_between_images apart, the
\* synthesized cover included.
C1_GapInvariant ==
    \A a, b \in 1..Len(decisions) :
        decisions[a].element_index < decisions[b].element_index
            => decisions[b].element_index - decisions[a].element_index
                   >= MinGap

\* C2 (cap invariant): the returned list never holds more than
\* max_images_per_article Decisions, for every value of the cap, 0 included.
C2_CapInvariant == Len(decisions) <= MaxImages

\* C3: the Decisions are returned in strictly increasing element_index
\* order, so no element carries two of them.
C3_StrictlyIncreasing ==
    \A k \in 1..(Len(decisions) - 1) :
        decisions[k].element_index < decisions[k + 1].element_index

\* C10 (ordinal stability): a second analyze call on the same Document
\* object returns the very list the first call, made on the fresh parse,
\* returned: same length, order, element_index, image kind and prompt.
C10_OrdinalStability == calls >= 2 => decisions = prevDecisions

\* C10's case: the document was analysed twice and the analysis placed
\* images on it (a synthesized cover and a scan Decision among them).
C10_Witness ==
    /\ calls = 2
    /\ Len(decisions) >= 2
    /\ decisions[1].reason = "no_h1"
    /\ \E i \in 1..Len(doc.elements) : doc.elements[i].need_image

\* ------------------------------------------- claims on the reconciliation

\* The Decision ordinals of a bucket, in bucket order.
Ordinals(bucket) == [k \in 1..Len(bucket) |-> bucket[k].index]

\* How often ordinal i stands in a bucket.
Occurrences(i, bucket) ==
    Cardinality({ k \in 1..Len(bucket) : bucket[k].index = i })

\* C4 (reconciliation completeness): every Decision ordinal stands in
\* exactly one of keep, regenerate, missing, exactly once, and the sizes of
\* the three buckets sum to len(decisions), for the images recovered from a
\* file under a selector and for any list of images and ordinals.
C4_Completeness ==
    pc \in {"planned", "planned_direct"} =>
        /\ Len(plan.keep) + Len(plan.regenerate) + Len(plan.missing)
               = Len(decisions)
        /\ \A i \in 0..(Len(decisions) - 1) :
               Occurrences(i, plan.keep) + Occurrences(i, plan.regenerate)
                   + Occurrences(i, plan.missing) = 1

\* C4's case: a plan with a kept and a regenerated slot, the regenerated one
\* being a slot for which an image was recovered as well.
C4_Witness ==
    /\ pc \in {"planned", "planned_direct"}
    /\ plan.keep # <<>>
    /\ plan.regenerate # <<>>
    /\ \E k \in 1..Len(existing_images) :
           existing_images[k].index = plan.regenerate[1].index

\* C5: a Decision whose ordinal was recovered as a failed ExistingImage is in
\* regenerate and not in keep, whatever the selector; keep holds only slots
\* recovered as a successful ExistingImage.
C5_FailedNeverKept ==
    pc \in {"planned", "planned_direct"} =>
        /\ \A k \in 1..Len(existing_images) :
               (/\ existing_images[k].is_failed
                /\ 0 <= existing_images[k].index
                /\ existing_images[k].index < Len(decisions))
               => /\ InSeq(existing_images[k].index, Ordinals(plan.regenerate))
                  /\ ~InSeq(existing_images[k].index, Ordinals(plan.keep))
        /\ \A j \in 1..Len(plan.keep) :
               \E k \in 1..Len(existing_images) :
                   /\ existing_images[k].index = plan.keep[j].index
                   /\ ~existing_images[k].is_failed

\* C6: Decision i of kind k is kept only if an ExistingImage was recovered
\* with index i and image kind k.
C6_KeepMatchesKind ==
    pc \in {"planned", "planned_direct"} =>
        \A j \in 1..Len(plan.keep) :
            \E k \in 1..Len(existing_images) :
                /\ existing_images[k].index = plan.keep[j].index
                /\ existing_images[k].image_type
                       = decisions[plan.keep[j].index + 1].image_type

\* The positions (1-based) of the lines of a kind.
LinesOfKind(kind) == { k \in 1..Len(lines) : lines[k].kind = kind }

\* C7 (only_failed scenario): the file holds the failure sentinel of one slot
\* and the successful, labelled image of the other, the two Decisions are
\* those slots in file order with the image's kind, and only_failed is
\* selected: keep is the successful slot, regenerate the failed one, missing
\* is empty.
C7_OnlyFailedScenario ==
    (/\ pc = "planned"
     /\ selector = OnlyFailed
     /\ Len(decisions) = 2
     /\ Cardinality(LinesOfKind("failed")) = 1
     /\ Cardinality(LinesOfKind("image")) = 1
     /\ LinesOfKind("mermaid_open") = {}
     /\ LET f == CHOOSE k \in LinesOfKind("failed") : TRUE
            g == CHOOSE k \in LinesOfKind("image") : TRUE
            okSlot == IF g < f THEN 0 ELSE 1
        IN  /\ lines[g].label = decisions[okSlot + 1].image_type
            /\ decisions[1].image_type # decisions[2].image_type)
    => LET f == CHOOSE k \in LinesOfKind("failed") : TRUE
           g == CHOOSE k \in LinesOfKind("image") : TRUE
           okSlot == IF g < f THEN 0 ELSE 1
       IN  /\ Ordinals(plan.keep) = <<okSlot>>
           /\ Ordinals(plan.regenerate) = <<1 - okSlot>>
           /\ plan.missing = <<>>

\* An image reference line whose alt-text holds no type label.
IsHandInserted(l) == l.kind = "image" /\ l.label = "none"

\* The file with its hand-inserted image lines turned into text lines.
WithoutHandInserted(ls) ==
    [k \in 1..Len(ls) |-> IF IsHandInserted(ls[k]) THEN TextLine ELSE ls[k]]

\* C8 (conservative attribution): no ExistingImage stems from an image line
\* without type label, wherever the line stands; the line adds nothing to
\* what is recovered (the file with the line turned into plain text gives
\* the same ExistingImages, so the same selection under only_failed and
\* by_kind), and its path is never kept.
C8_ConservativeAttribution ==
    pc = "planned" =>
        /\ \A k \in 1..Len(existing_images) :
               /\ ~IsHandInserted(lines[existing_images[k].line_number + 1])
               /\ existing_images[k].image_path # FilePath("user.png")
        /\ existing_images = ParseExistingImages(WithoutHandInserted(lines))
        /\ \A j \in 1..Len(plan.keep) :
               plan.keep[j].image_path # FilePath("user.png")

\* C8's case: a file with a hand-inserted image and recovered images,
\* reconciled under only_failed with a slot kept.
C8_Witness ==
    /\ pc = "planned"
    /\ \E k \in 1..Len(lines) : IsHandInserted(lines[k])
    /\ existing_images # <<>>
    /\ selector = OnlyFailed
    /\ plan.keep # <<>>

\* ------------------------------------------ claims on the regeneration run

\* The file the first run wrote holds an image for slot i.
PrevHasImage(i) ==
    LET p == prev_paths[i + 1] IN
    IF p.scheme = "list" THEN Succeeded(p.body) # {} ELSE Truthy(p)

\* The artifact the first run's file shows for slot i.
PrevRef(i) ==
    LET p == prev_paths[i + 1] IN
    IF p.scheme = "list"
    THEN p.body[1 + CHOOSE c \in Succeeded(p.body) :
                        \A d \in Succeeded(p.body) : c <= d]
    ELSE p

\* Slot i is what the selector of the run names: the ordinal, the kind, or
\* the slots whose generation failed.
IsSelected(i) ==
    IF selector.has_index THEN selector.regenerate_index = i
    ELSE IF selector.regenerate_type # "none"
    THEN decisions[i + 1].image_type = selector.regenerate_type
    ELSE selector.regenerate_failed /\ ~PrevHasImage(i)

\* The same file path, or a diagram marker with the same source lines.
SameArtifact(a, b) ==
    /\ a.scheme = b.scheme
    /\ IF a.scheme = "MERMAID_CODE"
       THEN SelectSeq(a.body, LAMBDA t : t # "")
                = SelectSeq(b.body, LAMBDA t : t # "")
       ELSE a.body = b.body

\* C9 (partial regeneration): at the end of a run with a selector, the
\* backend was called for no slot other than the selected ones and those
\* without image in the previous output, and every slot that had an image
\* and is not selected holds its previous artifact (the run ended without
\* writing, or image_paths holds the artifact at the slot's ordinal).
C9_PartialRegeneration ==
    (pc = "done" /\ run = 2 /\ selector # NoSelector) =>
        /\ \A k \in 1..Len(generated) :
               IsSelected(generated[k]) \/ ~PrevHasImage(generated[k])
        /\ \A i \in 0..(Len(decisions) - 1) :
               (PrevHasImage(i) /\ ~IsSelected(i)) =>
                   \/ image_paths = <<>>
                   \/ SameArtifact(image_paths[i + 1], PrevRef(i))

\* ------------------------------------- further claims on the analysis

\* The rules other than h1_after at their defaults, h1_after enabled.
DefaultRulesWithCover ==
    /\ RuleGet(rules, "h1_after", TRUE)
    /\ RuleGet(rules, "h2_after", "smart") = "smart"
    /\ RuleGet(rules, "long_paragraph_threshold",
               DefaultLongParagraphThreshold) = DefaultLongParagraphThreshold
    /\ MinGap = DefaultMinGap
    /\ MaxImages = DefaultMaxImages

CoverDecisions == { k \in 1..Len(decisions) : decisions[k].image_type = "cover" }

\* C11 (synthesized cover): for a document without level-1 heading that has
\* an element with non-blank content, analysed with h1_after enabled and
\* the other rules at their defaults, the returned list holds exactly one
\* cover Decision; it is the first of the list, it is attached to the first
\* element with non-blank content and its element_index is that element's
\* position.
C11_SynthesizedCover ==
    (/\ calls >= 1
     /\ ~HasH1(doc.elements)
     /\ TitleIndex(doc.elements) >= 0
     /\ DefaultRulesWithCover)
    => /\ Cardinality(CoverDecisions) = 1
       /\ decisions[1].image_type = "cover"
       /\ decisions[1].element_index = TitleIndex(doc.elements)
       /\ doc.elements[decisions[1].element_index + 1].position
              = decisions[1].element_index
       /\ doc.elements[decisions[1].element_index + 1].content.chars > 0

\* C11's case: an analysed document without level-1 heading whose first
\* element is blank, so that the cover sits on a later element, together
\* with a Decision of the main scan.
C11_Witness ==
    /\ calls >= 1
    /\ ~HasH1(doc.elements)
    /\ DefaultRulesWithCover
    /\ TitleIndex(doc.elements) >= 1
    /\ Len(decisions) >= 2

\* Documents made of an optional opening element and three sections,
\* each a level-2 heading followed by up to MaxBody paragraphs holding
\* more than 100 words together (counted as _should_add_section_image
\* counts them).
MaxBody == 2

\* The elements of the alphabet of one type and level.
ElementsOf(type, level) ==
    { e \in ElementAlphabet : e.type = type /\ e.level = level }

SectionBodies ==
    { b \in UNION { [1..n -> ElementsOf("paragraph", 0)] : n \in 1..MaxBody } :
        SectionWordsExceed(b, 0, 0) }

Sections == { <<h>> \o b : h \in ElementsOf("heading", 2), b \in SectionBodies }

Openings ==
    {<<>>} \cup { <<e>> : e \in ElementsOf("heading", 1) }
          \cup { <<e>> : e \in { p \in ElementsOf("paragraph", 0) :
                                  p.word_count < SmartSectionWords } }

SectionDocs ==
    { o \o s[1] \o s[2] \o s[3] : o \in Openings, s \in [1..3 -> Sections] }

\* The rules of the section scenario: h2_after 'smart', a gap of 3 and a
\* cap of 10; h1_after either way.
SectionRules ==
    [h1_after : BOOLEAN,
     h2_after : {"smart"},
     long_paragraph_threshold : {DefaultLongParagraphThreshold},
     min_gap_between_images : {DefaultMinGap},
     max_images_per_article : {DefaultMaxImages}]

InitSections ==
    /\ doc \in { MarkdownDocument(es) : es \in SectionDocs }
    /\ rules \in SectionRules
    /\ image_source = "zhipu"
    /\ decisions = <<>>
    /\ prevDecisions = <<>>
    /\ calls = 0
    /\ lines = <<>>
    /\ selector = NoSelector
    /\ existing_images = <<>>
    /\ regenerate_indices = <<>>
    /\ plan = EmptyPlan
    /\ at_base = TRUE
    /\ batch = 1
    /\ run = 1
    /\ image_paths = <<>>
    /\ generate_indices = <<>>
    /\ generated = <<>>
    /\ prev_paths = <<>>
    /\ ParserIdle
    /\ QuotaIdle
    /\ AbIdle
    /\ SourceIdle
    /\ pc = "analyze"

SpecSections == InitSections /\ [][Next]_vars

\* The Decisions of kind section or concept, and the level-2 headings.
SectionDecisions ==
    { k \in 1..Len(decisions) : decisions[k].image_type \in {"section", "concept"} }
H2Positions ==
    { i \in 0..(Len(doc.elements) - 1) :
        doc.elements[i + 1].type = "heading" /\ doc.elements[i + 1].level = 2 }

MadeBefore(h) ==
    { k \in 1..Len(decisions) :
        decisions[k].reason = "no_h1" \/ decisions[k].element_index < h }

\* The scan Decisions less than the gap before position h.
ScanDecisionsNear(h) ==
    { k \in 1..Len(decisions) :
        /\ decisions[k].reason # "no_h1"
        /\ decisions[k].element_index < h
        /\ h - decisions[k].element_index < MinGap }

Fixed(element) ==
    <<element.type, element.level, element.content, element.word_count,
      element.position>>

\* C17 (analysis only annotates): the elements of a parsed document have
\* their index as position, and an analyze call, the first or a later one,
\* leaves the element sequence with the same length and order and every
\* element with the same kind, content, level, word_count and position;
\* it changes need_image, image_type and image_prompt of elements and
\* metadata of the document only.
C17_OnlyAnnotates ==
    [][Analyze =>
         /\ \A i \in 1..Len(doc.elements) : doc.elements[i].position = i - 1
         /\ Len(doc'.elements) = Len(doc.elements)
         /\ \A i \in 1..Len(doc.elements) :
               /\ Fixed(doc'.elements[i]) = Fixed(doc.elements[i])
               /\ doc'.elements[i].position = i - 1
         /\ doc'.title = doc.title]_vars

\* C17's case: a document analysed twice, with an annotation on an element
\* that is not the first.
C17_Witness ==
    /\ calls = 2
    /\ \E i \in 2..Len(doc.elements) : doc.elements[i].need_image

\* ----------------------------------- further claims on the reconciliation

\* C16 (ordinal by kind): every ExistingImage recovered from the file has
\* as index the number of entries of its kind recovered before it: the
\* Nth occurrence of a kind, top to bottom, has index N-1.
C16_OrdinalByKind ==
    pc = "planned"
    => \A k \in 1..Len(existing_images) :
         existing_images[k].index
           = Cardinality({ j \in 1..(k - 1) :
                             existing_images[j].image_type
                               = existing_images[k].image_type })

\* ---------------------------------- analysis under partial rule configs

MaxShortElems == 3

\* A rule that is either missing or set to one of the values of V.
OptionalRule(key, V) == {<<>>} \cup { key :> v : v \in V }

\* The rule configurations in which any key may be missing; a key that is
\* present is set to a value that is not its default.
PartialRuleConfigs ==
    { a @@ b @@ c @@ d @@ e :
        a \in OptionalRule("h1_after", {FALSE}),
        b \in OptionalRule("h2_after", {"true", "false"}),
        c \in OptionalRule("long_paragraph_threshold", {60}),
        d \in OptionalRule("min_gap_between_images", {1}),
        e \in OptionalRule("max_images_per_article", {0, 1}) }

InitPartialRules ==
    /\ doc \in { MarkdownDocument(es) :
                   es \in UNION { [1..n -> ElementAlphabet] :
                                    n \in 0..MaxShortElems } }
    /\ rules \in PartialRuleConfigs
    /\ image_source = "zhipu"
    /\ decisions = <<>>
    /\ prevDecisions = <<>>
    /\ calls = 0
    /\ lines = <<>>
    /\ selector = NoSelector
    /\ existing_images = <<>>
    /\ regenerate_indices = <<>>
    /\ plan = EmptyPlan
    /\ at_base = TRUE
    /\ batch = 1
    /\ run = 1
    /\ image_paths = <<>>
    /\ generate_indices = <<>>
    /\ generated = <<>>
    /\ prev_paths = <<>>
    /\ ParserIdle
    /\ QuotaIdle
    /\ AbIdle
    /\ SourceIdle
    /\ pc = "analyze"

SpecPartialRules == InitPartialRules /\ [][Next]_vars

\* The documented defaults of the optional rule keys.
DocumentedDefaults ==
    [h1_after |-> TRUE,
     h2_after |-> "smart",
     long_paragraph_threshold |-> DefaultLongParagraphThreshold,
     min_gap_between_images |-> DefaultMinGap,
     max_images_per_article |-> DefaultMaxImages]

\* C15 (failure semantics): whatever rule keys are missing, analyze
\* returns what it returns under the configuration completed with the
\* documented defaults (h1_after True, h2_after 'smart',
\* long_paragraph_threshold 150, min_gap_between_images 3,
\* max_images_per_article 10), with the same annotations; and for a
\* document without elements it returns the empty list under every rule
\* configuration.
C15_DefaultsApply ==
    [][Analyze =>
         /\ decisions'
              = AnalyzeResult(doc, rules @@ DocumentedDefaults,
                              image_source).decisions
         /\ doc' = AnalyzeResult(doc, rules @@ DocumentedDefaults,
                                 image_source).doc
         /\ doc.elements = <<>> => decisions' = <<>>]_vars

\* C15's case: a document was analysed under a configuration without any
\* rule key and got a synthesized cover and a scan Decision.
C15_Witness ==
    /\ calls >= 1
    /\ DOMAIN rules = {}
    /\ Len(decisions) >= 2
    /\ decisions[1].reason = "no_h1"

\* ------------------------------------------------------ MarkdownParser

\* The parser works on the text itself: a line is a string, s[k - 1] of
\* Python is At(s, k).
At(s, k) == SubSeq(s, k, k)

\* \s and \w over the characters of the texts considered.
Whitespace == {" ", "\t"}
WordChars ==
    {"a", "b", "c", "d", "e", "f", "g", "h", "i", "j", "k", "l", "m", "n",
     "o", "p", "q", "r", "s", "t", "u", "v", "w", "x", "y", "z", "C", "S",
     "T", "0", "1", "2", "3", "4", "5", "6", "7", "8", "9", "_"}
DigitChars == {"0", "1", "2", "3", "4", "5", "6", "7", "8", "9"}

\* The length of the longest prefix of s made of characters of S.
LeadingCount(s, S) ==
    Cardinality({ k \in 1..Len(s) : \A j \in 1..k : At(s, j) \in S })

\* s from its (0-based) position a on: s[a:].
StrFrom(s, a) == SubSeq(s, a + 1, Len(s))

\* EMPTY_PATTERN ^\s*$
EmptyPattern(line) == LeadingCount(line, Whitespace) = Len(line)

\* HEADING_PATTERN ^(#{1,6})\s+(.+)$
HeadingPattern(line) ==
    LET n == LeadingCount(line, {"#"})
    IN  /\ n \in 1..6
        /\ Len(line) >= n + 2
        /\ At(line, n + 1) \in Whitespace

\* Group 1 of HEADING_PATTERN, as its length.
HeadingLevel(line) == LeadingCount(line, {"#"})

\* Group 2 of HEADING_PATTERN: \s+ takes the whitespace after the marks
\* and leaves at least one character to .+
HeadingContent(line) ==
    LET n == LeadingCount(line, {"#"})
        w == LeadingCount(StrFrom(line, n), Whitespace)
    IN  IF n + w < Len(line) THEN StrFrom(line, n + w)
        ELSE StrFrom(line, Len(line) - 1)

\* The fence character of CODE_BLOCK_PATTERN, the backquote, is written ~
\* in the texts of the model.
Fence == "~~~"

\* CODE_BLOCK_PATTERN ^<fence>(\w*)\s*$
CodeBlockPattern(line) ==
    /\ Len(line) >= 3
    /\ SubSeq(line, 1, 3) = Fence
    /\ LET rest == StrFrom(line, 3)
           w == LeadingCount(rest, WordChars)
       IN  EmptyPattern(StrFrom(rest, w))

\* LIST_PATTERN ^(\s*)([-*+]|\d+\.)\s+
ListPattern(line) ==
    LET rest == StrFrom(line, LeadingCount(line, Whitespace))
        dgt == LeadingCount(rest, DigitChars)
    IN  \/ /\ Len(rest) >= 2
           /\ At(rest, 1) \in {"-", "*", "+"}
           /\ At(rest, 2) \in Whitespace
        \/ /\ dgt >= 1
           /\ Len(rest) >= dgt + 2
           /\ At(rest, dgt + 1) = "."
           /\ At(rest, dgt + 2) \in Whitespace

\* QUOTE_PATTERN ^>\s*(.*)$
QuotePattern(line) == Len(line) >= 1 /\ At(line, 1) = ">"

\* Group 1 of QUOTE_PATTERN.
QuoteContent(line) ==
    StrFrom(line, 1 + LeadingCount(StrFrom(line, 1), Whitespace))

\* TABLE_PATTERN ^\|.*\|$
TablePattern(line) ==
    Len(line) >= 2 /\ At(line, 1) = "|" /\ At(line, Len(line)) = "|"

\* HR_PATTERN ^-{3,}$|^_{3,}$|\*{3,}$ used with match()
HrPattern(line) ==
    /\ Len(line) >= 3
    /\ \E c \in {"-", "_", "*"} : LeadingCount(line, {c}) = Len(line)

\* sep.join(ss)
RECURSIVE StrJoin(_, _)
StrJoin(ss, sep) ==
    IF ss = <<>> THEN ""
    ELSE IF Len(ss) = 1 THEN ss[1]
    ELSE ss[1] \o sep \o StrJoin(Tail(ss), sep)

\* s.split('\n')
RECURSIVE StrSplit(_)
StrSplit(s) ==
    LET nl == { k \in 1..Len(s) : At(s, k) = "\n" }
    IN  IF nl = {} THEN <<s>>
        ELSE LET first == CHOOSE k \in nl : \A j \in nl : k <= j
             IN  <<SubSeq(s, 1, first - 1)>> \o StrSplit(StrFrom(s, first))

\* MarkdownElement of the parser: content is the text; __post_init__ sets
\* word_count to the number of characters that are not whitespace.
ParsedElement(type, level, text) ==
    [type |-> type, level |-> level, content |-> text, position |-> 0,
     word_count |-> Cardinality({ k \in 1..Len(text) :
                                    At(text, k) \notin Whitespace \cup {"\n"} }),
     need_image |-> FALSE, image_type |-> "none", image_prompt |-> NoPrompt]

\* None in place of an element.
NoElement == [type |-> "none"]

\* The loops of _parse_code_block, _parse_paragraph, _parse_list,
\* _parse_quote and _parse_table: the first index from i on (0-based)
\* that is the end of the lines or holds a line the loop breaks at.
ScanEnd(ls, i, Break(_)) ==
    LET stop == { j \in i..Len(ls) : j = Len(ls) \/ Break(ls[j + 1]) }
    IN  IF i >= Len(ls) THEN i
        ELSE CHOOSE j \in stop : \A k \in stop : j <= k

\* (element, lines_consumed)
Parsed(element, consumed) == [element |-> element, consumed |-> consumed]

\* _parse_code_block
ParseCodeBlock(ls, index) ==
    LET i == ScanEnd(ls, index + 1, CodeBlockPattern)
    IN  Parsed(ParsedElement("code_block", 0,
                             StrJoin(PySlice(ls, index + 1, i), "\n")),
               i - index + 1)

\* The lines _parse_paragraph stops at.
ParagraphBreak(line) ==
    \/ EmptyPattern(line)
    \/ HeadingPattern(line)
    \/ CodeBlockPattern(line)
    \/ HrPattern(line)
    \/ ListPattern(line)
    \/ QuotePattern(line)

\* _parse_paragraph
ParseParagraph(ls, index) ==
    LET i == ScanEnd(ls, index, ParagraphBreak)
    IN  Parsed(ParsedElement("paragraph", 0,
                             StrJoin(PySlice(ls, index, i), " ")),
               i - index)

\* _parse_list
ParseList(ls, index) ==
    LET NotList(line) == ~ListPattern(line)
        i == ScanEnd(ls, index, NotList)
    IN  Parsed(ParsedElement("list", 0,
                             StrJoin(PySlice(ls, index, i), "\n")),
               i - index)

\* _parse_quote
ParseQuote(ls, index) ==
    LET NotQuote(line) == ~QuotePattern(line)
        i == ScanEnd(ls, index, NotQuote)
        quoted == PySlice(ls, index, i)
    IN  Parsed(ParsedElement("quote", 0,
                   StrJoin([k \in 1..Len(quoted) |-> QuoteContent(quoted[k])],
                           " ")),
               i - index)

\* _parse_table
ParseTable(ls, index) ==
    LET NotTable(line) == ~TablePattern(line)
        i == ScanEnd(ls, index, NotTable)
    IN  Parsed(ParsedElement("table", 0,
                             StrJoin(PySlice(ls, index, i), "\n")),
               i - index)

\* _parse_line as it would be without the test for a table row.
ParseLineAtWithoutTable(ls, index) ==
    LET line == ls[index + 1]
    IN  IF EmptyPattern(line) THEN Parsed(NoElement, 1)
        ELSE IF HeadingPattern(line)
        THEN Parsed(ParsedElement("heading", HeadingLevel(line),
                                  HeadingContent(line)), 1)
        ELSE IF CodeBlockPattern(line) THEN ParseCodeBlock(ls, index)
        ELSE IF QuotePattern(line) THEN ParseQuote(ls, index)
        ELSE IF ListPattern(line) THEN ParseList(ls, index)
        ELSE IF HrPattern(line)
        THEN Parsed(ParsedElement("horizontal_rule", 0, line), 1)
        ELSE ParseParagraph(ls, index)

\* _parse_line as it would be without the test for a horizontal rule.
ParseLineAtWithoutRule(ls, index) ==
    LET line == ls[index + 1]
    IN  IF EmptyPattern(line) THEN Parsed(NoElement, 1)
        ELSE IF HeadingPattern(line)
        THEN Parsed(ParsedElement("heading", HeadingLevel(line),
                                  HeadingContent(line)), 1)
        ELSE IF CodeBlockPattern(line) THEN ParseCodeBlock(ls, index)
        ELSE IF QuotePattern(line) THEN ParseQuote(ls, index)
        ELSE IF ListPattern(line) THEN ParseList(ls, index)
        ELSE IF TablePattern(line) THEN ParseTable(ls, index)
        ELSE ParseParagraph(ls, index)

\* _parse_line: the element starting at line index (0-based) and the
\* number of lines it takes.
ParseLineAt(ls, index) ==
    LET line == ls[index + 1]
    IN  IF EmptyPattern(line) THEN Parsed(NoElement, 1)
        ELSE IF HeadingPattern(line)
        THEN Parsed(ParsedElement("heading", HeadingLevel(line),
                                  HeadingContent(line)), 1)
        ELSE IF CodeBlockPattern(line) THEN ParseCodeBlock(ls, index)
        ELSE IF QuotePattern(line) THEN ParseQuote(ls, index)
        ELSE IF ListPattern(line) THEN ParseList(ls, index)
        ELSE IF TablePattern(line) THEN ParseTable(ls, index)
        ELSE IF HrPattern(line)
        THEN Parsed(ParsedElement("horizontal_rule", 0, line), 1)
        ELSE ParseParagraph(ls, index)

\* parse, lines 124-130: one turn of the loop on the elements so far.
AddElement(elems, element) ==
    IF element.type = "none" THEN elems
    ELSE Append(elems, [element EXCEPT !.position = Len(elems)])

\* parse as a whole: the elements of the lines from index i on.
RECURSIVE ParseFrom(_, _, _)
ParseFrom(ls, i, elems) ==
    IF i >= Len(ls) THEN elems
    ELSE LET r == ParseLineAt(ls, i)
         IN  ParseFrom(ls, i + r.consumed, AddElement(elems, r.element))

\* MarkdownParser.parse(text).elements
ParseText(text) == ParseFrom(StrSplit(text), 0, <<>>)

\* _extract_title on the parsed elements.
ExtractTitleText(elems) ==
    LET h1 == { i \in 1..Len(elems) :
                  elems[i].type = "heading" /\ elems[i].level = 1 }
    IN  IF h1 # {} THEN elems[CHOOSE i \in h1 : \A j \in h1 : i <= j].content
        ELSE "Untitled"

\* ------------------------------- MarkdownAssembler on a parsed document

\* str.strip() of a line.
Strip(s) ==
    LET lead == LeadingCount(s, Whitespace)
        keep == { k \in 1..Len(s) : At(s, k) \notin Whitespace }
    IN  IF keep = {} THEN ""
        ELSE SubSeq(s, lead + 1, CHOOSE k \in keep : \A j \in keep : j <= k)

\* str.lower(), on the capitals of WordChars.
LowerChar(c) ==
    CASE c = "C" -> "c" [] c = "S" -> "s" [] c = "T" -> "t" [] OTHER -> c

Lower(s) == StrJoin([k \in 1..Len(s) |-> LowerChar(At(s, k))], "")

\* sub in s
Contains(s, sub) ==
    \E k \in 1..(Len(s) - Len(sub) + 1) : SubSeq(s, k, k + Len(sub) - 1) = sub

\* common_langs of _detect_language
CommonLangs ==
    {"python", "javascript", "java", "cpp", "c", "go", "rust", "typescript",
     "jsx", "tsx", "html", "css", "json", "yaml", "bash", "shell", "sql",
     "markdown", "latex"}

\* _detect_language; "" is None.
DetectLanguage(first_line) ==
    LET name == Lower(Strip(first_line))
    IN  IF name \in CommonLangs THEN name ELSE ""

\* _format_element
FormatElement(element) ==
    IF element.type = "heading"
    THEN StrJoin([k \in 1..element.level |-> "#"], "") \o " " \o element.content
    ELSE IF element.type = "code_block"
    THEN LET first == StrSplit(element.content)[1]
             lang == DetectLanguage(first)
         IN  IF lang # "" /\ Contains(first, lang)
             THEN Fence \o element.content \o Fence
             ELSE Fence \o "\n" \o element.content \o "\n" \o Fence
    ELSE IF element.type = "quote"
    THEN LET ls == StrSplit(element.content)
         IN  StrJoin([k \in 1..Len(ls) |-> "> " \o ls[k]], "\n")
    ELSE IF element.type = "horizontal_rule" THEN "---"
    ELSE element.content

\* assemble(doc, image_paths) on a document without annotation: no element
\* has need_image, so the text is the formatted elements joined by a blank
\* line.
AssembleElements(elems) ==
    StrJoin([k \in 1..Len(elems) |-> FormatElement(elems[k])], "\n\n")

\* ------------------------------------------ a parse and its round trip

MaxLines == 3

\* The lines the texts are made of: blank lines, headings, a line of
\* marks without text, fences with and without language, a language name,
\* a quote, a list item, a table row, the two spellings of a rule, text.
LineAlphabet ==
    {"", " ", "# T", "## S", "#", Fence, Fence \o "c", "c", "> q", "- a",
     "|a|", "***", "---", "text"}

Texts ==
    { StrJoin(ls, "\n") :
        ls \in UNION { [1..n -> LineAlphabet] : n \in 1..MaxLines } }

InitParse ==
    /\ content = ""
    /\ parse_lines = <<>>
    /\ parse_i = 0
    /\ parse_elements = <<>>
    /\ assembled = ""
    /\ reparsed = <<>>
    /\ marker = ""
    /\ marker_built = NoMarker
    /\ marker_result = NoMarkerResult
    /\ QuotaIdle
    /\ AbIdle
    /\ SourceIdle
    /\ doc = [elements |-> <<>>, title |-> "", theme |-> "",
              doc_type |-> "unset"]
    /\ rules = [h1_after |-> TRUE]
    /\ image_source = "zhipu"
    /\ decisions = <<>>
    /\ prevDecisions = <<>>
    /\ calls = 0
    /\ lines = <<>>
    /\ selector = NoSelector
    /\ existing_images = <<>>
    /\ regenerate_indices = <<>>
    /\ plan = EmptyPlan
    /\ at_base = TRUE
    /\ batch = 1
    /\ run = 1
    /\ image_paths = <<>>
    /\ generate_indices = <<>>
    /\ generated = <<>>
    /\ prev_paths = <<>>
    /\ pc = "parse"

\* What the parser and the round trip leave alone.
NotParserVars ==
    <<rules, image_source, decisions, prevDecisions, calls, lines, selector,
      existing_images, regenerate_indices, plan, at_base, batch, run,
      image_paths, generate_indices, generated, prev_paths, marker,
      marker_built, marker_result,
      sourceVars,
      abVars,
      quotaVars>>

\* parse(text), lines 119-122: the text is split into lines, the scan
\* starts.
ParseBegin ==
    /\ pc = "parse"
    /\ \E text \in Texts :
          /\ content' = text
          /\ parse_lines' = StrSplit(text)
    /\ parse_i' = 0
    /\ parse_elements' = <<>>
    /\ pc' = "scan"
    /\ UNCHANGED <<assembled, reparsed, doc>>
    /\ UNCHANGED NotParserVars

\* parse, lines 124-130: one turn of the while loop.
ParseStep ==
    /\ pc = "scan"
    /\ parse_i < Len(parse_lines)
    /\ LET r == ParseLineAt(parse_lines, parse_i)
       IN  /\ parse_elements' = AddElement(parse_elements, r.element)
           /\ parse_i' = parse_i + r.consumed
    /\ UNCHANGED <<content, parse_lines, assembled, reparsed, doc, pc>>
    /\ UNCHANGED NotParserVars

\* parse, lines 132-136: the loop has ended, the Document is returned.
ParseReturn ==
    /\ pc = "scan"
    /\ parse_i >= Len(parse_lines)
    /\ doc' = [elements |-> parse_elements,
               title |-> ExtractTitleText(parse_elements),
               theme |-> "", doc_type |-> "unset"]
    /\ pc' = "parsed"
    /\ UNCHANGED parserVars
    /\ UNCHANGED NotParserVars

\* MarkdownAssembler.assemble on the parsed document, no image given.
AssemblePlain ==
    /\ pc = "parsed"
    /\ assembled' = AssembleElements(doc.elements)
    /\ pc' = "assembled"
    /\ UNCHANGED <<content, parse_lines, parse_i, parse_elements, reparsed,
                   doc>>
    /\ UNCHANGED NotParserVars

\* MarkdownParser.parse on the assembled text.
Reparse ==
    /\ pc = "assembled"
    /\ reparsed' = ParseText(assembled)
    /\ pc' = "reparsed"
    /\ UNCHANGED <<content, parse_lines, parse_i, parse_elements, assembled,
                   doc>>
    /\ UNCHANGED NotParserVars

NextParse ==
    \/ ParseBegin
    \/ ParseStep
    \/ ParseReturn
    \/ AssemblePlain
    \/ Reparse

SpecParse == InitParse /\ [][NextParse]_vars

\* ------------------------------------------------- claims on the parser

\* kind, level and content of the elements, position by position.
Shape(elems) ==
    [k \in 1..Len(elems) |->
        <<elems[k].type, elems[k].level, elems[k].content>>]

\* C13 (idempotent parse): the text the Assembler makes of the parsed
\* elements, no image inserted, parses to an element sequence with the
\* same kind, level and content at every position as the first parse.
C13_IdempotentParse == pc = "reparsed" => Shape(reparsed) = Shape(doc.elements)

\* The category of a line by the stated precedence: empty, heading, code
\* fence, block quote, list item, table row, horizontal rule, paragraph.
FirstCategory(line) ==
    CASE EmptyPattern(line) -> "empty"
      [] ~EmptyPattern(line) /\ HeadingPattern(line) -> "heading"
      [] OTHER ->
           IF CodeBlockPattern(line) THEN "code_block"
           ELSE IF QuotePattern(line) THEN "quote"
           ELSE IF ListPattern(line) THEN "list"
           ELSE IF TablePattern(line) THEN "table"
           ELSE IF HrPattern(line) THEN "horizontal_rule"
           ELSE "paragraph"

\* The line the scan stands at.
CurrentLine == parse_lines[parse_i + 1]

\* The turn of the loop appended an element.
Appended == Len(parse_elements') = Len(parse_elements) + 1

\* The element a turn of the loop appended.
NewElement == parse_elements'[Len(parse_elements')]

\* C14 (the parse terminates): every turn of the scan consumes at least
\* one line, so the line index strictly increases, and it passes the last
\* line by at most one (an unterminated fence): the scan takes at most as
\* many turns as the text has lines.  A line matching no special pattern
\* ends up in a paragraph element that starts with it, and at the end of
\* the lines the Document is returned with every element of the scan.
C14_ParseTerminates ==
    [][/\ ParseStep =>
            /\ parse_i' > parse_i
            /\ parse_i' <= Len(parse_lines) + 1
            /\ FirstCategory(CurrentLine) = "paragraph"
                 => /\ Appended
                    /\ NewElement.type = "paragraph"
                    /\ SubSeq(NewElement.content, 1, Len(CurrentLine))
                         = CurrentLine
       /\ ParseReturn =>
            /\ doc'.elements = parse_elements
            /\ \A k \in 1..Len(parse_elements) :
                  parse_elements[k].position = k - 1]_vars

\* C14's case: a text with an unterminated fence and a line matching no
\* pattern has been parsed to the end.
C14_Witness ==
    /\ pc = "parsed"
    /\ parse_i = Len(parse_lines) + 1
    /\ \E k \in 1..Len(doc.elements) : doc.elements[k].type = "paragraph"
    /\ \E k \in 1..Len(doc.elements) : doc.elements[k].type = "code_block"

\* C19 (precedence): the element that starts at a line is of the first
\* category the line matches in the order empty (no element), heading
\* (with the number of marks as level), code fence, block quote, list
\* item, table row, horizontal rule, paragraph.
C19_Precedence ==
    [][ParseStep =>
         IF FirstCategory(CurrentLine) = "empty"
         THEN parse_elements' = parse_elements
         ELSE /\ Appended
              /\ NewElement.type = FirstCategory(CurrentLine)
              /\ NewElement.type = "heading"
                   => NewElement.level = HeadingLevel(CurrentLine)]_vars

\* C19's case: a parse that classified a heading, a table row and a
\* horizontal rule.
C19_Witness ==
    /\ pc = "parsed"
    /\ {"heading", "table", "horizontal_rule"}
         \subseteq { doc.elements[k].type : k \in 1..Len(doc.elements) }

\* C20 (paragraph boundary): the lines a paragraph is made of are the run
\* from its first line to the first blank line or line of a
\* higher-precedence category (heading, code fence, block quote, list
\* item, table row, horizontal rule): none of these is absorbed.
C20_ParagraphBoundary ==
    [][(ParseStep /\ Appended /\ NewElement.type = "paragraph") =>
         /\ \A j \in parse_i..(parse_i' - 1) :
              FirstCategory(parse_lines[j + 1]) = "paragraph"
         /\ parse_i' < Len(parse_lines)
              => FirstCategory(parse_lines[parse_i' + 1]) # "paragraph"]_vars

\* ------------------------------------------- the diagram-source marker

MaxSourceLen == 3

\* s.startswith(prefix)
StartsWith(s, prefix) ==
    Len(s) >= Len(prefix) /\ SubSeq(s, 1, Len(prefix)) = prefix

\* The positions of the colons of s.
Colons(s) == { k \in 1..Len(s) : At(s, k) = ":" }

\* s.split(":") as it would be without the limit of two splits, cut to
\* its first three parts.
SplitColonsAll(s) ==
    LET cs == Colons(s)
        c1 == CHOOSE k \in cs : \A j \in cs : k <= j
        after1 == { k \in cs : k > c1 }
        c2 == CHOOSE k \in after1 : \A j \in after1 : k <= j
        after2 == { k \in cs : k > c2 }
        c3 == IF after2 = {} THEN Len(s) + 1
              ELSE CHOOSE k \in after2 : \A j \in after2 : k <= j
    IN  IF cs = {} THEN <<s>>
        ELSE IF after1 = {} THEN <<SubSeq(s, 1, c1 - 1), StrFrom(s, c1)>>
        ELSE <<SubSeq(s, 1, c1 - 1), SubSeq(s, c1 + 1, c2 - 1),
               SubSeq(s, c2 + 1, c3 - 1)>>

\* s.split(":", 2): at most three parts, the last one with its colons.
SplitColons(s) ==
    LET cs == Colons(s)
        c1 == CHOOSE k \in cs : \A j \in cs : k <= j
        after1 == { k \in cs : k > c1 }
        c2 == CHOOSE k \in after1 : \A j \in after1 : k <= j
    IN  IF cs = {} THEN <<s>>
        ELSE IF after1 = {} THEN <<SubSeq(s, 1, c1 - 1), StrFrom(s, c1)>>
        ELSE <<SubSeq(s, 1, c1 - 1), SubSeq(s, c1 + 1, c2 - 1),
               StrFrom(s, c2)>>

\* is_mermaid_code on a string
IsMermaidCodeText(image_path) == StartsWith(image_path, "MERMAID_CODE:")

\* parse_mermaid_code; (None, None) is ("none", "").
ParseMermaidCode(image_path) ==
    LET parts == SplitColons(image_path)
    IN  IF IsMermaidCodeText(image_path) /\ Len(parts) >= 3
        THEN [is_mermaid |-> TRUE, diagram_type |-> parts[2],
              mermaid_code |-> parts[3]]
        ELSE [is_mermaid |-> IsMermaidCodeText(image_path),
              diagram_type |-> "none", mermaid_code |-> ""]

\* _format_as_mermaid_block, and the marker of parse_existing_images.
FormatAsMermaidBlock(mermaid_code, diagram_type) ==
    "MERMAID_CODE:" \o diagram_type \o ":" \o mermaid_code

\* str.rstrip() of a line.
RStrip(s) ==
    LET keep == { k \in 1..Len(s) : At(s, k) \notin Whitespace \cup {"\n"} }
    IN  IF keep = {} THEN ""
        ELSE SubSeq(s, 1, CHOOSE k \in keep : \A j \in keep : j <= k)

\* Diagram source texts: colons, newlines and letters in any order.
SourceChars == {"a", ":", "\n"}
SourceTexts ==
    { StrJoin(cs, "") :
        cs \in UNION { [1..n -> SourceChars] : n \in 0..MaxSourceLen } }

\* Diagram kinds of the generator (DIAGRAM_TYPE_KEYWORDS).
DiagramTypes == {"flowchart", "sequenceDiagram", "mindmap"}

\* Lines of a diagram block as readlines() returns them.
BlockLines == {"graph TD\n", "  A-->B: x  \n", "a:b:c\n", "\n"}

\* image_path entries that are no diagram marker built by the code.
OtherPaths ==
    {"", "a.png", "images/a:b.png", "MERMAID_CODE", "MERMAID_CODE:",
     "MERMAID_CODE:flowchart", "mermaid_code:flowchart:a",
     "xMERMAID_CODE:flowchart:a"}

InitMarker ==
    /\ marker = ""
    /\ marker_built = NoMarker
    /\ marker_result = NoMarkerResult
    /\ QuotaIdle
    /\ AbIdle
    /\ SourceIdle
    /\ content = ""
    /\ parse_lines = <<>>
    /\ parse_i = 0
    /\ parse_elements = <<>>
    /\ assembled = ""
    /\ reparsed = <<>>
    /\ doc = [elements |-> <<>>, title |-> "", theme |-> "",
              doc_type |-> "unset"]
    /\ rules = [h1_after |-> TRUE]
    /\ image_source = "mermaid"
    /\ decisions = <<>>
    /\ prevDecisions = <<>>
    /\ calls = 0
    /\ lines = <<>>
    /\ selector = NoSelector
    /\ existing_images = <<>>
    /\ regenerate_indices = <<>>
    /\ plan = EmptyPlan
    /\ at_base = TRUE
    /\ batch = 1
    /\ run = 1
    /\ image_paths = <<>>
    /\ generate_indices = <<>>
    /\ generated = <<>>
    /\ prev_paths = <<>>
    /\ pc = "marker"

\* What the marker round trip leaves alone.
NotMarkerVars ==
    <<doc, rules, image_source, decisions, prevDecisions, calls, lines,
      selector, existing_images, regenerate_indices, plan, at_base, batch,
      run, image_paths, generate_indices, generated, prev_paths,
      sourceVars,
      abVars,
      quotaVars>>

\* MermaidGenerator: the marker of a generated diagram.
GenerateMarker ==
    /\ pc = "marker"
    /\ \E diagram_type \in DiagramTypes, mermaid_code \in SourceTexts :
          /\ marker' = FormatAsMermaidBlock(mermaid_code, diagram_type)
          /\ marker_built' = [kind |-> diagram_type, source |-> mermaid_code]
    /\ pc' = "built"
    /\ UNCHANGED marker_result
    /\ UNCHANGED parserVars
    /\ UNCHANGED NotMarkerVars

\* parse_existing_images: the marker of a diagram block found in a file,
\* its lines stripped on the right and joined.
RecoverMarker ==
    /\ pc = "marker"
    /\ \E image_type \in ImageTypes,
          mermaid_lines \in UNION { [1..n -> BlockLines] : n \in 0..2 } :
          LET mermaid_code ==
                  StrJoin([k \in 1..Len(mermaid_lines) |->
                              RStrip(mermaid_lines[k])], "\n")
          IN  /\ marker' = FormatAsMermaidBlock(mermaid_code, image_type)
              /\ marker_built' = [kind |-> image_type, source |-> mermaid_code]
    /\ pc' = "built"
    /\ UNCHANGED marker_result
    /\ UNCHANGED parserVars
    /\ UNCHANGED NotMarkerVars

\* An image_path entry that is a file path or some other string.
OtherPath ==
    /\ pc = "marker"
    /\ marker' \in OtherPaths
    /\ pc' = "built"
    /\ UNCHANGED <<marker_built, marker_result>>
    /\ UNCHANGED parserVars
    /\ UNCHANGED NotMarkerVars

\* is_mermaid_code and parse_mermaid_code on the entry.
ParseMarker ==
    /\ pc = "built"
    /\ marker_result' = ParseMermaidCode(marker)
    /\ pc' = "parsed_marker"
    /\ UNCHANGED <<marker, marker_built>>
    /\ UNCHANGED parserVars
    /\ UNCHANGED NotMarkerVars

NextMarker ==
    \/ GenerateMarker
    \/ RecoverMarker
    \/ OtherPath
    \/ ParseMarker

SpecMarker == InitMarker /\ [][NextMarker]_vars

\* C18 (marker round trip): parse_mermaid_code on the marker
\* MERMAID_CODE:<kind>:<source> built by the generator or by the
\* reconciler returns that kind and the source text verbatim, colons and
\* newlines included; is_mermaid_code is true exactly for the strings that
\* start with MERMAID_CODE: (every built marker among them).
C18_MarkerRoundTrip ==
    pc = "parsed_marker"
    => /\ marker_built # NoMarker
            => /\ marker_result.is_mermaid
               /\ marker_result.diagram_type = marker_built.kind
               /\ marker_result.mermaid_code = marker_built.source
       /\ marker_result.is_mermaid
            <=> /\ Len(marker) >= 13
                /\ \A k \in 1..13 : At(marker, k) = At("MERMAID_CODE:", k)

\* C18's case: the marker of a source text with a colon and a newline has
\* been parsed.
C18_Witness ==
    /\ pc = "parsed_marker"
    /\ marker_built # NoMarker
    /\ \E k \in 1..Len(marker_built.source) : At(marker_built.source, k) = ":"
    /\ \E k \in 1..Len(marker_built.source) : At(marker_built.source, k) = "\n"

\* ------------------------------------------------ the level-2 heading rule

\* The longest document the heading rule is examined on.
MaxSmartElems == 4

\* The elements of these documents: level-2 headings with and without a
\* concept keyword, a level-3 heading, paragraphs of 50 and of 51 words (two
\* of 50 make exactly 100) and a quote of 200 words.
SmartAlphabet ==
    { MarkdownElement("heading", 2, Content("section", 7, FALSE, FALSE)),
      MarkdownElement("heading", 2, Content("mechanism", 9, TRUE, FALSE)),
      MarkdownElement("heading", 3, Content("sub", 3, FALSE, FALSE)),
      MarkdownElement("paragraph", 0, Content("fifty", 50, FALSE, FALSE)),
      MarkdownElement("paragraph", 0, Content("fifty-one", 51, FALSE, FALSE)),
      MarkdownElement("quote", 0, Content("quoted", 200, FALSE, FALSE)) }

\* The rules of the heading scenario: h2_after True or 'smart'.
SmartRules ==
    [h1_after : BOOLEAN,
     h2_after : {"true", "smart"},
     long_paragraph_threshold : {DefaultLongParagraphThreshold},
     min_gap_between_images : {1, DefaultMinGap},
     max_images_per_article : {1, DefaultMaxImages}]

InitSmart ==
    /\ doc \in { MarkdownDocument(es) :
                   es \in UNION { [1..n -> SmartAlphabet] :
                                    n \in 0..MaxSmartElems } }
    /\ rules \in SmartRules
    /\ image_source = "zhipu"
    /\ decisions = <<>>
    /\ prevDecisions = <<>>
    /\ calls = 0
    /\ lines = <<>>
    /\ selector = NoSelector
    /\ existing_images = <<>>
    /\ regenerate_indices = <<>>
    /\ plan = EmptyPlan
    /\ at_base = TRUE
    /\ batch = 1
    /\ run = 1
    /\ image_paths = <<>>
    /\ generate_indices = <<>>
    /\ generated = <<>>
    /\ prev_paths = <<>>
    /\ ParserIdle
    /\ QuotaIdle
    /\ AbIdle
    /\ SourceIdle
    /\ pc = "analyze"

SpecSmart == InitSmart /\ [][Next]_vars

\* The words of the paragraphs from element i (1-based) up to the next
\* heading of any level or the end of the document.
RECURSIVE ParagraphWordsFrom(_, _)
ParagraphWordsFrom(elems, i) ==
    IF i > Len(elems) \/ elems[i].type = "heading" THEN 0
    ELSE (IF elems[i].type = "paragraph" THEN elems[i].word_count ELSE 0)
           + ParagraphWordsFrom(elems, i + 1)

\* The Decisions the scan made on the element at position h (the
\* synthesized cover is not one of them).
ScanDecisionsAt(h) ==
    { k \in 1..Len(decisions) :
        decisions[k].reason # "no_h1" /\ decisions[k].element_index = h }

\* C21 (level-2 heading rule): with h2_after 'smart' the scan makes a
\* Decision on a level-2 heading only if the paragraphs that follow it, up
\* to the next heading of any level, hold more than 100 words together
\* (exactly 100 is not enough, elements that are not paragraphs add
\* nothing); with h2_after True it makes one on every level-2 heading that
\* the gap and the cap admit, of kind concept when the heading text holds a
\* concept keyword and of kind section otherwise.
C21_HeadingRule ==
    calls >= 1
    => \A h \in H2Positions :
         /\ RuleGet(rules, "h2_after", "smart") = "smart"
              => (ScanDecisionsAt(h) # {}
                    => ParagraphWordsFrom(doc.elements, h + 2)
                         > SmartSectionWords)
         /\ RuleGet(rules, "h2_after", "smart") = "true"
              => ((/\ ScanDecisionsNear(h) = {}
                   /\ Cardinality(MadeBefore(h)) < MaxImages)
                    => /\ Cardinality(ScanDecisionsAt(h)) = 1
                       /\ \A k \in ScanDecisionsAt(h) :
                            decisions[k].image_type
                              = IF doc.elements[h + 1].content.concept
                                THEN "concept" ELSE "section")

\* C21's case: under 'smart' a level-2 heading followed by a paragraph of
\* 50 words, a quote and a paragraph of 51 words got its Decision.
C21_Witness ==
    /\ calls >= 1
    /\ RuleGet(rules, "h2_after", "smart") = "smart"
    /\ \E h \in H2Positions :
         /\ ScanDecisionsAt(h) # {}
         /\ ParagraphWordsFrom(doc.elements, h + 2) = SmartSectionWords + 1
         /\ doc.elements[h + 3].type = "quote"

\* The boundary: under 'smart' a level-2 heading admitted by gap and cap
\* and followed by exactly 100 words of paragraphs and a quote got none.
C21_WitnessExact ==
    /\ calls >= 1
    /\ RuleGet(rules, "h2_after", "smart") = "smart"
    /\ \E h \in H2Positions :
         /\ ScanDecisionsAt(h) = {}
         /\ ScanDecisionsNear(h) = {}
         /\ Cardinality(MadeBefore(h)) < MaxImages
         /\ ParagraphWordsFrom(doc.elements, h + 2) = SmartSectionWords
         /\ \E i \in (h + 2)..Len(doc.elements) :
              doc.elements[i].type = "quote"

\* C21's case under h2_after True: an admitted concept heading and an
\* admitted plain heading both got their Decision.
C21_WitnessTrue ==
    /\ calls >= 1
    /\ RuleGet(rules, "h2_after", "smart") = "true"
    /\ \E k \in 1..Len(decisions) : decisions[k].image_type = "concept"
    /\ \E k \in 1..Len(decisions) : decisions[k].image_type = "section"

\* ------------------------------------------------ image-source selection

\* ImageSourceManager.select_source_for_image (default_source is the
\* configured source): as _determine_image_source, but a normal document
\* is sent to the stock-photo chain 'auto_fallback'
\* (Unsplash, then Pexels, then the configured backend).
SelectSourceForImage(image_type, doc_type, default_source) ==
    IF image_type = "cover" THEN default_source
    ELSE IF doc_type = "technical"
            /\ image_type \in {"section", "concept", "diagram"} THEN "mermaid"
    ELSE IF doc_type = "normal" THEN "auto_fallback"
    ELSE default_source

\* The number of calls made with the same arguments.
MaxSourceCalls == 3

\* The configured sources, the document types and the two selection
\* functions.
ConfiguredSources == {"zhipu", "dalle", "unsplash", "mermaid"}
DocTypes == {"technical", "normal", "mixed"}
SourceSelectors == {"analyzer", "manager"}

\* Everything but the parser, the marker and the selection at rest.
CoreIdle ==
    /\ doc = [elements |-> <<>>, title |-> "", theme |-> "",
              doc_type |-> "unset"]
    /\ rules = [h1_after |-> TRUE]
    /\ decisions = <<>>
    /\ prevDecisions = <<>>
    /\ calls = 0
    /\ lines = <<>>
    /\ selector = NoSelector
    /\ existing_images = <<>>
    /\ regenerate_indices = <<>>
    /\ plan = EmptyPlan
    /\ at_base = TRUE
    /\ batch = 1
    /\ run = 1
    /\ image_paths = <<>>
    /\ generate_indices = <<>>
    /\ generated = <<>>
    /\ prev_paths = <<>>

InitSource ==
    /\ image_source \in ConfiguredSources
    /\ source_request = NoSourceRequest
    /\ source_results = <<>>
    /\ CoreIdle
    /\ ParserIdle
    /\ QuotaIdle
    /\ AbIdle
    /\ pc = "source"

\* What a selection leaves alone: the configured source too.
NotSourceVars ==
    <<doc, rules, image_source, decisions, prevDecisions, calls, lines,
      selector, existing_images, regenerate_indices, plan, at_base, batch,
      run, image_paths, generate_indices, generated, prev_paths, pc,
      abVars,
      quotaVars>>

\* The answer of the requested selection function.
SourceAnswer(request, src) ==
    IF request.selector = "analyzer"
    THEN DetermineImageSource(request.image_type, request.doc_type, src)
    ELSE SelectSourceForImage(request.image_type, request.doc_type, src)

\* A first call of one of the two functions with some arguments.
SelectSource ==
    /\ source_results = <<>>
    /\ \E f \in SourceSelectors, image_type \in ImageTypes,
          doc_type \in DocTypes :
          LET request == [selector |-> f, image_type |-> image_type,
                          doc_type |-> doc_type]
          IN  /\ source_request' = request
              /\ source_results' = <<SourceAnswer(request, image_source)>>
    /\ UNCHANGED parserVars
    /\ UNCHANGED markerVars
    /\ UNCHANGED quotaVars
    /\ UNCHANGED abVars
    /\ UNCHANGED NotSourceVars

\* A further call with the same arguments.
SelectSourceAgain ==
    /\ source_results # <<>>
    /\ Len(source_results) < MaxSourceCalls
    /\ source_results'
         = Append(source_results, SourceAnswer(source_request, image_source))
    /\ UNCHANGED source_request
    /\ UNCHANGED parserVars
    /\ UNCHANGED markerVars
    /\ UNCHANGED quotaVars
    /\ UNCHANGED abVars
    /\ UNCHANGED NotSourceVars

NextSource == SelectSource \/ SelectSourceAgain

SpecSource == InitSource /\ [][NextSource]_vars

\* The stock-photo backend each function names.
StockBackend(f) == IF f = "analyzer" THEN "unsplash" ELSE "auto_fallback"

DiagramKinds == {"section", "concept", "diagram"}

\* C22 as stated: a cover gets the configured backend under every document
\* type; section, concept and diagram get the diagram backend in a
\* technical document and the stock-photo backend in a normal one; every
\* other combination gets the configured default; calls with the same
\* arguments give the same backend.
C22_SourcePolicy ==
    \A k \in 1..Len(source_results) :
       /\ source_results[k] = source_results[1]
       /\ source_results[k]
            = IF source_request.image_type = "cover" THEN image_source
              ELSE IF source_request.image_type \in DiagramKinds
                      /\ source_request.doc_type = "technical" THEN "mermaid"
              ELSE IF source_request.image_type \in DiagramKinds
                      /\ source_request.doc_type = "normal"
                   THEN StockBackend(source_request.selector)
              ELSE image_source

\* C22 amended: a cover gets the configured backend under every document
\* type; section, concept and diagram get the diagram backend in a
\* technical document; every kind but cover gets the stock-photo backend
\* in a normal document; every other combination gets the configured
\* default; calls with the same arguments give the same backend.
C22_SourcePolicyNormalStock ==
    \A k \in 1..Len(source_results) :
       /\ source_results[k] = source_results[1]
       /\ source_results[k]
            = IF source_request.image_type = "cover" THEN image_source
              ELSE IF source_request.image_type \in DiagramKinds
                      /\ source_request.doc_type = "technical" THEN "mermaid"
              ELSE IF source_request.doc_type = "normal"
                   THEN StockBackend(source_request.selector)
              ELSE image_source

\* C22's case: the selection was called three times for an atmospheric
\* image of a normal document, with a configured backend that is not the
\* stock-photo one.
C22_Witness ==
    /\ Len(source_results) = MaxSourceCalls
    /\ source_request.image_type = "atmospheric"
    /\ source_request.doc_type = "normal"
    /\ image_source = "zhipu"

\* ---------------------------------------------------------- A/B variants

\* The longest document analysed with A/B variants and the longest list
\* of variant templates.
MaxAbElems == 2
MaxVariations == 2

Min(a, b) == IF a <= b THEN a ELSE b

\* A variant template: a dict whose keys may be missing.
VariationAlphabet ==
    { [name |-> "minimal", prompt_suffix |-> ", minimal"],
      [name |-> "vivid", description |-> "bright", prompt_suffix |-> ", vivid"],
      <<>> }

\* ImageDecision.ab_variants: None (the dataclass default) or a list.
NoVariants == [is_none |-> TRUE, list |-> <<>>]
VariantList(l) == [is_none |-> FALSE, list |-> l]

\* _generate_ab_variants: the first min(test_size, len(variations))
\* templates, each giving its name, its description and the base prompt
\* followed by its suffix.
GenerateAbVariants(base_prompt, variations, test_size) ==
    [j \in 1..Min(test_size, Len(variations)) |->
        LET variation == variations[j]
            name == RuleGet(variation, "name", "variant_" \o ToString(j - 1))
        IN  [name |-> name,
             description |-> RuleGet(variation, "description", name),
             prompt |-> [base |-> base_prompt,
                         suffix |-> RuleGet(variation, "prompt_suffix", "")]]]

\* analyze, lines 361-366 and 334-342: a Decision of the scan gets its
\* variants before it is appended when ab_test is enabled and has
\* templates; the synthesized cover is built without ab_variants, and so
\* is every Decision otherwise.
AttachVariants(decs, ab) ==
    [k \in 1..Len(decs) |->
        [element_index |-> decs[k].element_index,
         need_image |-> decs[k].need_image,
         image_type |-> decs[k].image_type,
         prompt |-> decs[k].prompt,
         reason |-> decs[k].reason,
         image_source |-> decs[k].image_source,
         ab_variants |->
            IF decs[k].reason # "no_h1" /\ ab.enabled /\ ab.variations # <<>>
            THEN VariantList(GenerateAbVariants(decs[k].prompt, ab.variations,
                                                ab.test_size))
            ELSE NoVariants]]

AbTestConfigs ==
    [enabled : BOOLEAN,
     variations : UNION { [1..n -> VariationAlphabet] : n \in 0..MaxVariations },
     test_size : 0..(MaxVariations + 1)]

InitAbTest ==
    /\ doc \in { MarkdownDocument(es) :
                   es \in UNION { [1..n -> ElementAlphabet] :
                                    n \in 0..MaxAbElems } }
    /\ rules = [min_gap_between_images |-> 1]
    /\ ab_test \in AbTestConfigs
    /\ image_source = "zhipu"
    /\ decisions = <<>>
    /\ prevDecisions = <<>>
    /\ calls = 0
    /\ lines = <<>>
    /\ selector = NoSelector
    /\ existing_images = <<>>
    /\ regenerate_indices = <<>>
    /\ plan = EmptyPlan
    /\ at_base = TRUE
    /\ batch = 1
    /\ run = 1
    /\ image_paths = <<>>
    /\ generate_indices = <<>>
    /\ generated = <<>>
    /\ prev_paths = <<>>
    /\ ParserIdle
    /\ QuotaIdle
    /\ SourceIdle
    /\ pc = "analyze"

\* ContentAnalyzer.analyze(doc) under a configuration with an ab_test key.
AnalyzeVariants ==
    /\ calls < MaxCalls
    /\ LET res == AnalyzeResult(doc, rules, image_source)
       IN  /\ doc' = res.doc
           /\ decisions' = AttachVariants(res.decisions, ab_test)
    /\ prevDecisions' = decisions
    /\ calls' = calls + 1
    /\ UNCHANGED parserVars
    /\ UNCHANGED markerVars
    /\ UNCHANGED quotaVars
    /\ UNCHANGED sourceVars
    /\ UNCHANGED <<rules, image_source, lines, selector, existing_images,
                   regenerate_indices, plan, ab_test, pc>>
    /\ UNCHANGED illustrateVars

NextAbTest == AnalyzeVariants

SpecAbTest == InitAbTest /\ [][NextAbTest]_vars

\* C23 (A/B expansion): when ab_test is enabled and has at least one
\* variant template, every Decision of the returned list, the synthesized
\* cover included, carries a list of min(test_size, number of templates)
\* variants in template order, the prompt of variant j being the
\* Decision's prompt followed by the suffix of template j.
C23_VariantExpansion ==
    (calls >= 1 /\ ab_test.enabled /\ ab_test.variations # <<>>)
    => \A k \in 1..Len(decisions) :
         /\ ~decisions[k].ab_variants.is_none
         /\ Len(decisions[k].ab_variants.list)
              = Min(ab_test.test_size, Len(ab_test.variations))
         /\ \A j \in 1..Len(decisions[k].ab_variants.list) :
              /\ decisions[k].ab_variants.list[j].name
                   = RuleGet(ab_test.variations[j], "name",
                             "variant_" \o ToString(j - 1))
              /\ decisions[k].ab_variants.list[j].prompt
                   = [base |-> decisions[k].prompt,
                      suffix |-> RuleGet(ab_test.variations[j],
                                         "prompt_suffix", "")]

\* ------------------------------------------ attribution of diagram blocks

\* The number of blocks of a file of diagram blocks.
MaxDiagramBlocks == 3

\* A diagram block as the Assembler writes it, declaring grammar g.
DiagramBlock(g) ==
    <<MermaidOpenLine, BlankLine, DiagramLine(g), BlankLine, FenceLine>>

\* The blocks of these files: text, a cover image, the captions of a cover
\* and of a concept image, a diagram block of each grammar the reconciler
\* maps, one of a grammar it does not map and one without grammar keyword.
DiagramBlockAlphabet ==
    { <<TextLine>>,
      <<ImageLine("cover", "a.png")>>,
      <<CaptionLine("cover")>>,
      <<CaptionLine("concept")>>,
      DiagramBlock("none"),
      DiagramBlock("gantt") }
    \cup { DiagramBlock(g) :
             g \in {"stateDiagram", "sequenceDiagram", "flowchart",
                    "classDiagram", "mindmap"} }

DiagramFiles ==
    { JoinBlocks(bs) :
        bs \in UNION { [1..n -> DiagramBlockAlphabet] :
                         n \in 0..MaxDiagramBlocks } }

InitDiagrams ==
    /\ doc = MarkdownDocument(<<>>)
    /\ rules = [h1_after |-> TRUE]
    /\ image_source = "zhipu"
    /\ decisions = <<SlotDecision(1, "cover"), SlotDecision(2, "section")>>
    /\ prevDecisions = <<>>
    /\ calls = 0
    /\ lines \in DiagramFiles
    /\ selector = NoSelector
    /\ existing_images = <<>>
    /\ regenerate_indices = <<>>
    /\ plan = EmptyPlan
    /\ at_base = TRUE
    /\ batch = 1
    /\ run = 1
    /\ image_paths = <<>>
    /\ generate_indices = <<>>
    /\ generated = <<>>
    /\ prev_paths = <<>>
    /\ ParserIdle
    /\ QuotaIdle
    /\ SourceIdle
    /\ AbIdle
    /\ pc = "regenerate"

SpecDiagrams == InitDiagrams /\ [][NextRegen]_vars

\* The diagram blocks of the file: the line (0-based) of an opening
\* ```mermaid and the line of the fence that closes it.
BlockStarts ==
    { s \in 0..(Len(lines) - 1) : lines[s + 1].kind = "mermaid_open" }
BlockEnd(s) ==
    CHOOSE e \in (s + 1)..(Len(lines) - 1) :
       /\ lines[e + 1].kind = "fence"
       /\ \A j \in (s + 1)..(e - 1) : lines[j + 1].kind # "fence"

\* The kinds whose label stands in the text around the block: from 10
\* lines above its opening to 4 lines below its closing fence.
LabelsAround(s) ==
    { t \in ImageTypes :
        \E j \in Max0(s - 10)..(BlockEnd(s) + 4) :
           /\ j < Len(lines)
           /\ (CnNameIn(lines[j + 1], t) \/ ArticleNameIn(lines[j + 1], t)) }

\* The grammar keyword the block declares and the kind it stands for.
GrammarOf(s) ==
    LET gs == { lines[j + 1].grammar : j \in (s + 1)..(BlockEnd(s) - 1) }
                 \ {"none"}
    IN  IF gs = {} THEN "none" ELSE CHOOSE g \in gs : TRUE
KindOfGrammar(g) ==
    CASE g = "stateDiagram" -> "concept"
      [] g = "sequenceDiagram" -> "section"
      [] g = "flowchart" -> "code_concept"
      [] g = "classDiagram" -> "concept"
      [] g = "mindmap" -> "cover"
      [] OTHER -> "none"

\* The entries recovered from diagram blocks, and those of the block
\* opening at line s.
DiagramEntries ==
    { k \in 1..Len(existing_images) :
        existing_images[k].image_path.scheme = "MERMAID_CODE" }
EntriesOf(s) ==
    { k \in DiagramEntries : existing_images[k].line_number = s }

C24_WitnessGrammar ==
    /\ pc = "planned"
    /\ \E s1, s2 \in BlockStarts :
          /\ s1 < s2
          /\ LabelsAround(s1) = {} /\ LabelsAround(s2) = {}
          /\ GrammarOf(s1) = "stateDiagram" /\ GrammarOf(s2) = "classDiagram"
          /\ \E k \in EntriesOf(s2) : existing_images[k].index = 1

\* ------------------------------------------------ the selectors together

\* The blocks of the files the selectors are tried on: text, a cover
\* image and the failure sentinel.
SelectorBlockAlphabet ==
    { <<TextLine>>, <<ImageLine("cover", "a.png")>>, <<FailedLine>> }

SelectorFiles ==
    { JoinBlocks(bs) :
        bs \in UNION { [1..n -> SelectorBlockAlphabet] : n \in 0..MaxBlocks } }

\* Every combination of the three arguments regenerate_index (None or an
\* integer, in range or not), regenerate_type (None or a kind, one of
\* which no Decision has) and regenerate_failed.
AllSelectors ==
    { Selector(h, IF h THEN i ELSE 0, t, f) :
        h \in BOOLEAN, i \in (-1)..MaxDecisions,
        t \in {"none", "atmospheric"} \cup DecisionKinds, f \in BOOLEAN }

InitSelectors ==
    /\ doc = MarkdownDocument(<<>>)
    /\ rules = [h1_after |-> TRUE]
    /\ image_source = "zhipu"
    /\ decisions \in DecisionLists
    /\ prevDecisions = <<>>
    /\ calls = 0
    /\ lines \in SelectorFiles
    /\ selector = NoSelector
    /\ existing_images = <<>>
    /\ regenerate_indices = <<>>
    /\ plan = EmptyPlan
    /\ at_base = TRUE
    /\ batch = 1
    /\ run = 1
    /\ image_paths = <<>>
    /\ generate_indices = <<>>
    /\ generated = <<>>
    /\ prev_paths = <<>>
    /\ ParserIdle
    /\ QuotaIdle
    /\ SourceIdle
    /\ AbIdle
    /\ pc = "regenerate"

\* parse_for_regeneration called with any combination of regenerate_index,
\* regenerate_type and regenerate_failed.
ParseForRegenerationAnySelector ==
    /\ pc = "regenerate"
    /\ \E sel \in AllSelectors :
         LET existing == ParseExistingImages(lines)
             regen == FilterImagesToRegenerate(existing, decisions, sel)
         IN  /\ selector' = sel
             /\ existing_images' = existing
             /\ regenerate_indices' = regen
             /\ plan' = CreateRegeneratePlan(existing, decisions, regen)
    /\ pc' = "planned"
    /\ UNCHANGED parserVars
    /\ UNCHANGED markerVars
    /\ UNCHANGED quotaVars
    /\ UNCHANGED sourceVars
    /\ UNCHANGED abVars
    /\ UNCHANGED <<doc, rules, image_source, decisions, prevDecisions, calls,
                   lines>>
    /\ UNCHANGED illustrateVars

NextSelectors == ParseForRegenerationAnySelector

SpecSelectors == InitSelectors /\ [][NextSelectors]_vars

\* What each selector class selects on its own.
ByOrdinal(n) == IF 0 <= n /\ n < Len(decisions) THEN {n} ELSE {}
ByKind(k) ==
    { i \in 0..(Len(decisions) - 1) : decisions[i + 1].image_type = k }
FailedBelow ==
    { existing_images[k].index :
        k \in { j \in 1..Len(existing_images) :
                  /\ existing_images[j].is_failed
                  /\ existing_images[j].index < Len(decisions) } }

\* The answers of the selector classes supplied with the call.
SuppliedAnswers ==
    (IF selector.has_index THEN {ByOrdinal(selector.regenerate_index)}
     ELSE {})
    \cup (IF selector.regenerate_type # "none"
          THEN {ByKind(selector.regenerate_type)} ELSE {})
    \cup (IF selector.regenerate_failed THEN {FailedBelow} ELSE {})

SeqToSet(s) == { s[k] : k \in 1..Len(s) }

\* C25 (selectors): the forced-regeneration set of a call is what one
\* selector class selects on its own, never a mix of several: by_ordinal(n)
\* gives {n} when 0 <= n < len(decisions) and nothing otherwise, by_kind(k)
\* the ordinals of the Decisions of kind k, only_failed the indices below
\* len(decisions) of the failed ExistingImages; the list is sorted and
\* without repetition; when no selector is supplied it is empty, and so is
\* the regenerate bucket of the Plan.
C25_SelectorsExclusive ==
    pc = "planned"
    => /\ \A a, b \in 1..Len(regenerate_indices) :
             a < b => regenerate_indices[a] < regenerate_indices[b]
       /\ IF SuppliedAnswers = {}
          THEN regenerate_indices = <<>> /\ plan.regenerate = <<>>
          ELSE SeqToSet(regenerate_indices) \in SuppliedAnswers

\* C25's case: an ordinal and a kind were supplied together, each
\* selecting something else, beside only_failed with a failed image
\* recovered.
C25_Witness ==
    /\ pc = "planned"
    /\ selector.has_index
    /\ selector.regenerate_type # "none"
    /\ selector.regenerate_failed
    /\ ByOrdinal(selector.regenerate_index) # {}
    /\ ByKind(selector.regenerate_type) # {}
    /\ ByOrdinal(selector.regenerate_index) # ByKind(selector.regenerate_type)
    /\ FailedBelow # {}

\* ------------------------------------ recovery of standard image lines

\* The image reference lines of the file whose alt-text holds a type
\* label, by line number (no line of these files is inside a diagram
\* block unless it is a line of diagram source).
LabelledImageLines ==
    { n \in 0..(Len(lines) - 1) :
        lines[n + 1].kind = "image" /\ lines[n + 1].label # "none" }

\* C26 (standard image lines): an image reference line outside a diagram
\* block whose alt-text holds a recognized type label is recovered as an
\* ExistingImage of the labelled kind that is not failed and carries the
\* path of the line.
C26_LabelledImageRecovered ==
    pc = "planned"
    => \A n \in LabelledImageLines :
          \E k \in 1..Len(existing_images) :
             /\ existing_images[k].line_number = n
             /\ existing_images[k].image_type = lines[n + 1].label
             /\ existing_images[k].image_path = FilePath(lines[n + 1].path)
             /\ ~existing_images[k].is_failed

\* ------------------------------------------ failed slots across the file

\* The slots of which every candidate failed in the first, batch run: the
\* Assembler wrote the failure sentinel for them.
AllFailedSlots ==
    { i \in 0..(Len(prev_paths) - 1) :
        /\ prev_paths[i + 1].scheme = "list"
        /\ prev_paths[i + 1].body # <<>>
        /\ Succeeded(prev_paths[i + 1].body) = {} }

\* C27 (failed slots survive the round trip): when the first run wrote the
\* failure sentinel for slot i, the second run recovers from the file an
\* ExistingImage of index i marked failed, and under only_failed Decision i
\* is in the regenerate bucket of its plan.
C27_FailedSlotRecovered ==
    (run = 2 /\ selector # NoSelector)
    => \A i \in AllFailedSlots :
          /\ \E k \in 1..Len(existing_images) :
                /\ existing_images[k].is_failed
                /\ existing_images[k].index = i
          /\ selector = OnlyFailed
               => \E k \in 1..Len(plan.regenerate) :
                     plan.regenerate[k].index = i


\* ------------------------------------------ alignment of generation results

\* What the generation loop can leave for ordinal i: in single mode the
\* path or diagram marker the backend returned, or the failure placeholder
\* None; in batch mode a list of batch candidates, each the path of
\* candidate c or None.
IsResultOf(p, i) ==
    LET image_type == decisions[i + 1].image_type
    IN  IF batch > 1
        THEN /\ p.scheme = "list"
             /\ Len(p.body) = batch
             /\ \A c \in 1..batch :
                   p.body[c] \in {GeneratedPath(run, i, image_type, c - 1),
                                  NoPath}
        ELSE p \in {GeneratedPath(run, i, image_type, 0), GeneratedDiagram,
                    NoPath}

\* C28 (slot-ordinal alignment of generation results): after the
\* generation step, whatever the backend's successes and failures and in
\* every mode, image_paths has exactly len(decisions) entries and entry i
\* holds the result, or the failure placeholder, of Decision i.
C28_SlotAlignment ==
    (pc = "generate" /\ generate_indices = <<>>)
    => /\ Len(image_paths) = Len(decisions)
       /\ \A k \in 1..Len(generated) :
             /\ generated[k] + 1 \in 1..Len(image_paths)
             /\ IsResultOf(image_paths[generated[k] + 1], generated[k])


\* ------------------------------------------ the Assembler's slot counting

\* MarkdownAssembler.assemble, lines 66-97: image_index counts the elements
\* that have need_image, so artifact k (0-based) goes after the element
\* that has k flagged elements before it.  The 0-based positions of the
\* flagged elements, in document order.
RECURSIVE FlaggedFrom(_, _)
FlaggedFrom(elems, e) ==
    IF e > Len(elems) THEN <<>>
    ELSE (IF elems[e].need_image THEN <<e - 1>> ELSE <<>>)
         \o FlaggedFrom(elems, e + 1)

FlaggedElements(d) == FlaggedFrom(d.elements, 1)

\* C29 (artifact placement): for every Decision list analyze returns on a
\* parsed document, the k-th element flagged need_image in document order
\* is the element of the k-th Decision, so the Assembler inserts the
\* artifact of Decision i directly after element decisions[i].element_index,
\* none on another slot's element and none left out.
C29_ArtifactPlacement ==
    calls = 1
    => /\ Len(FlaggedElements(doc)) = Len(decisions)
       /\ \A k \in 1..Len(decisions) :
             k <= Len(FlaggedElements(doc))
             => FlaggedElements(doc)[k] = decisions[k].element_index


\* ------------------------------------------ the web server's daily quota

\* The requests of one user that are in flight together (the development
\* server handles each request in a thread of its own).
MaxRequests == 3

\* The daily limits the user's session is given.
MaxQuota == 2
QuotaLimits == 1..MaxQuota

\* RateLimiter.limits['illustrate']['max']: requests per session and hour.
RateLimitMax == 10

Requests == 1..MaxRequests

\* One user, logged in with a quota limit, at the start of a day (the
\* counter of a new day is the defaultdict's 0); MaxRequests requests to
\* /api/illustrate arrive.
InitQuota ==
    /\ image_source = "zhipu"
    /\ CoreIdle
    /\ ParserIdle
    /\ SourceIdle
    /\ AbIdle
    /\ quota_limit \in QuotaLimits
    /\ user_quota = 0
    /\ req_pc = [r \in Requests |-> "arrived"]
    /\ req_used = [r \in Requests |-> 0]
    /\ pc = "serve"

NotQuotaVars ==
    <<doc, rules, image_source, decisions, prevDecisions, calls, lines,
      selector, existing_images, regenerate_indices, plan, at_base, batch,
      run, image_paths, generate_indices, generated, prev_paths, pc,
      parserVars, markerVars, sourceVars, abVars>>

\* SessionManager.check_user_quota(username, limit)
CheckUserQuota(used, limit) == used < limit

\* RateLimiter.is_allowed for the session: the requests recorded so far
\* are those that passed the quota test and reached the limiter.
RateRecorded ==
    Cardinality({ r \in Requests :
                    req_pc[r] \in {"running", "ran", "failed", "incrementing",
                                   "counted"} })

\* illustrate_markdown, lines 754-760: the quota test; 429 when used up.
CheckQuota(r) ==
    /\ req_pc[r] = "arrived"
    /\ req_pc' = [req_pc EXCEPT ![r] =
                     IF CheckUserQuota(user_quota, quota_limit)
                     THEN "checked" ELSE "rejected"]
    /\ UNCHANGED <<user_quota, quota_limit, req_used>>
    /\ UNCHANGED NotQuotaVars

\* illustrate_markdown, lines 762-768: the rate limiter records the request
\* or answers 429.
RateLimit(r) ==
    /\ req_pc[r] = "checked"
    /\ req_pc' = [req_pc EXCEPT ![r] =
                     IF RateRecorded >= RateLimitMax
                     THEN "rejected" ELSE "running"]
    /\ UNCHANGED <<user_quota, quota_limit, req_used>>
    /\ UNCHANGED NotQuotaVars

\* illustrate_markdown, lines 770-823: the illustrate run; it succeeds, or
\* it fails or raises and the request is answered 400 or 500 without being
\* counted.
RunIllustrate(r) ==
    /\ req_pc[r] = "running"
    /\ \/ req_pc' = [req_pc EXCEPT ![r] = "ran"]
       \/ req_pc' = [req_pc EXCEPT ![r] = "failed"]
    /\ UNCHANGED <<user_quota, quota_limit, req_used>>
    /\ UNCHANGED NotQuotaVars

\* increment_user_quota, line 166, first half of `+= 1`: the counter is
\* read.
IncrementRead(r) ==
    /\ req_pc[r] = "ran"
    /\ req_used' = [req_used EXCEPT ![r] = user_quota]
    /\ req_pc' = [req_pc EXCEPT ![r] = "incrementing"]
    /\ UNCHANGED <<user_quota, quota_limit>>
    /\ UNCHANGED NotQuotaVars

\* increment_user_quota, line 166, second half of `+= 1`: the value read
\* plus one is stored; the request is answered with success (lines 829-836).
IncrementWrite(r) ==
    /\ req_pc[r] = "incrementing"
    /\ user_quota' = req_used[r] + 1
    /\ req_pc' = [req_pc EXCEPT ![r] = "counted"]
    /\ UNCHANGED <<quota_limit, req_used>>
    /\ UNCHANGED NotQuotaVars

NextQuota ==
    \E r \in Requests :
        \/ CheckQuota(r)
        \/ RateLimit(r)
        \/ RunIllustrate(r)
        \/ IncrementRead(r)
        \/ IncrementWrite(r)

SpecQuota == InitQuota /\ [][NextQuota]_vars

\* The illustrate runs of the day that were started and counted: the
\* requests whose run succeeded and whose increment was made.
RunsCounted ==
    Cardinality({ r \in Requests : req_pc[r] = "counted" })

\* C30 (daily quota under concurrency): for every interleaving of the
\* user's requests, the illustrate runs started and counted today never
\* exceed quota_limit.
C30_QuotaEnforced == RunsCounted <= quota_limit

====
